---- MODULE Spec2Model ----
(***************************************************************************)
(* State-machine model of the ESP32 firmware of the TCD1304 spectrometer   *)
(* (src/esp32_code.ino): the poll loop, the data-ready interrupt, the SPI  *)
(* command/response codec, the dark-spectrum correction and the UI state   *)
(* machine that selects the acquisition mode.                              *)
(*                                                                         *)
(* The globals of the sketch are the variables below.  The functions of    *)
(* the sketch are operators that map a record of globals to the record     *)
(* after the call, so that a handler is the composition of the calls it    *)
(* makes, in the order of the source.  One iteration of loop() is cut only *)
(* where it reads or writes dataReady, the one variable it shares with the *)
(* interrupt routine onDataReady().                                        *)
(***************************************************************************)
EXTENDS Integers, Sequences, FiniteSets, TLC

\* ------------------------------------------------------------------------
\* Bounds of the model
\* ------------------------------------------------------------------------
\* Number of detector pixels (3694 in the sketch, scaled down).
PIXEL_COUNT == 22
\* Response frames the controller may return are RxFrame(0) .. RxFrame(MaxFrame).
MaxFrame == 1
\* Settings edits keep each period within MaxEditSteps steps of its power-on value.
MaxEditSteps == 1
\* Requests counted in one SingleScan session.
MaxRequests == 2
\* Data-ready pulses counted while the flag stays set.
MaxPulses == 2
\* The vectors and frames a function is called on alone step through their edge
\* values with the strides 0 .. MaxStride.
MaxStride == 2

\* ------------------------------------------------------------------------
\* Program constants
\* ------------------------------------------------------------------------
PACKET_SIZE == 2 * PIXEL_COUNT
ADC_MAX_VALUE == 4095
SH_PERIOD_INIT == 5000000
ICG_PERIOD_INIT == 5000000
NUM_INTEGRATIONS == 1
MAIN_MENU_MAX == 3
SETTINGS_MAX == 2
SETTINGS_ACQ_MAX == 2
SETTINGS_AXIS_MAX == 5
PACKET_START_MARKER == <<170, 187, 204, 221>>

U16 == 65536

\* A uint32_t is kept as its two 16-bit halves <<high, low>>: the values the periods
\* reach after a wrap-around do not fit the integers of the model checker.
ToU32(n) == <<n \div U16, n % U16>>
\* v + d in uint32_t arithmetic, for a step d with |d| < 65536
AddU32(v, d) ==
    LET t == v[2] + d
    IN  IF t < 0 THEN <<(v[1] + U16 - 1) % U16, t + U16>>
        ELSE IF t >= U16 THEN <<(v[1] + 1) % U16, t - U16>>
        ELSE <<v[1], t>>
\* v < n for a constant n < 65536
LessU32(v, n) == v[1] = 0 /\ v[2] < n

STATE_MAIN_MENU == "STATE_MAIN_MENU"
STATE_SETTINGS == "STATE_SETTINGS"
STATE_SETTINGS_ACQ == "STATE_SETTINGS_ACQ"
STATE_SETTINGS_AXIS == "STATE_SETTINGS_AXIS"
STATE_ACQUISITION_CONT == "STATE_ACQUISITION_CONT"
STATE_ACQUISITION_SINGLE == "STATE_ACQUISITION_SINGLE"
STATE_ACQUISITION_DARK == "STATE_ACQUISITION_DARK"

ScreenState == {STATE_MAIN_MENU, STATE_SETTINGS, STATE_SETTINGS_ACQ, STATE_SETTINGS_AXIS,
                STATE_ACQUISITION_CONT, STATE_ACQUISITION_SINGLE, STATE_ACQUISITION_DARK}
AcquisitionStates == {STATE_ACQUISITION_CONT, STATE_ACQUISITION_SINGLE, STATE_ACQUISITION_DARK}
IdleStates == ScreenState \ AcquisitionStates

UNIT_PIXEL == "UNIT_PIXEL"
UNIT_NM == "UNIT_NM"
UNIT_CM_1 == "UNIT_CM_1"

Pixels == 0 .. (PIXEL_COUNT - 1)
PacketIndex == 0 .. (PACKET_SIZE - 1)
ZeroSpectrum == [i \in Pixels |-> 0]
ZeroPacket == [i \in PacketIndex |-> 0]
NoGraph == [mode |-> "none", data |-> ZeroSpectrum]
NoPacket == [marker |-> <<>>, data |-> ZeroSpectrum]
NoExchange == [op |-> "none", frame |-> ZeroPacket]

\* ------------------------------------------------------------------------
\* State
\* ------------------------------------------------------------------------
VARIABLES
    currentState, redrawScreen,
    SH_PERIOD, ICG_PERIOD,
    plot_pixel_min, plot_pixel_max, plot_adc_min, plot_adc_max, currentXUnit,
    tx_buffer, rx_buffer,
    pixel_data, raw_pixel_data, dark_spectrum_data, darkSpectrumSaved,
    dataReady, waitingForSingleScan,
    mainMenuSelection, settingsSelection, settingsAcqSelection, settingsAxisSelection,
    settingsEditMode,
    clientConnected,  \* client && client.connected()
    tft_graph,        \* the spectrum on the display (NoGraph: a menu or a message)
    pc,               \* position of loop(): "ui", "acq", "consume", "tail", "tailclear"
    clicked,          \* loop()'s local `clicked`, kept for the acquisition section
    \* What the last step of loop() put out:
    ev,               \* the calls it made, in order
    spi_mosi,         \* the bus exchange it made with the STM32 (NoExchange: none)
    wifi_sent,        \* the packet it wrote to the TCP client (NoPacket: none)
    \* Requests and results of the SingleScan session, counted from its entry until
    \* the iteration after its exit:
    nRequests, nResults,
    \* Pulses of the data-ready line since the flag was last cleared, and the number
    \* of them the last step of loop() took with its clear of the flag:
    nPulses, coalesced,
    \* The flag was already set when the command of the last request went out (a
    \* kick-start or a combined exchange) and has not been cleared since:
    staleReady

gvars == <<currentState, redrawScreen, SH_PERIOD, ICG_PERIOD,
           plot_pixel_min, plot_pixel_max, plot_adc_min, plot_adc_max, currentXUnit,
           tx_buffer, rx_buffer, pixel_data, raw_pixel_data, dark_spectrum_data,
           darkSpectrumSaved, waitingForSingleScan,
           mainMenuSelection, settingsSelection, settingsAcqSelection,
           settingsAxisSelection, settingsEditMode, tft_graph>>

outs == <<ev, spi_mosi, wifi_sent, coalesced>>

vars == <<gvars, outs, dataReady, nPulses, staleReady, clientConnected, pc, clicked, nRequests, nResults>>

\* The globals as one record, with the events of the step being taken.
Globals ==
    [currentState |-> currentState, redrawScreen |-> redrawScreen,
     SH_PERIOD |-> SH_PERIOD, ICG_PERIOD |-> ICG_PERIOD,
     plot_pixel_min |-> plot_pixel_min, plot_pixel_max |-> plot_pixel_max,
     plot_adc_min |-> plot_adc_min, plot_adc_max |-> plot_adc_max,
     currentXUnit |-> currentXUnit,
     tx_buffer |-> tx_buffer, rx_buffer |-> rx_buffer,
     pixel_data |-> pixel_data, raw_pixel_data |-> raw_pixel_data,
     dark_spectrum_data |-> dark_spectrum_data, darkSpectrumSaved |-> darkSpectrumSaved,
     waitingForSingleScan |-> waitingForSingleScan,
     mainMenuSelection |-> mainMenuSelection, settingsSelection |-> settingsSelection,
     settingsAcqSelection |-> settingsAcqSelection,
     settingsAxisSelection |-> settingsAxisSelection,
     settingsEditMode |-> settingsEditMode,
     clientConnected |-> clientConnected,
     tft_graph |-> tft_graph,
     ev |-> <<>>, spi_mosi |-> NoExchange, wifi_sent |-> NoPacket, coalesced |-> 0]

\* The record is evaluated once and then written to the globals.
Commit(g) ==
    \E h \in {g} :
        /\ currentState' = h.currentState
        /\ redrawScreen' = h.redrawScreen
        /\ SH_PERIOD' = h.SH_PERIOD
        /\ ICG_PERIOD' = h.ICG_PERIOD
        /\ plot_pixel_min' = h.plot_pixel_min
        /\ plot_pixel_max' = h.plot_pixel_max
        /\ plot_adc_min' = h.plot_adc_min
        /\ plot_adc_max' = h.plot_adc_max
        /\ currentXUnit' = h.currentXUnit
        /\ tx_buffer' = h.tx_buffer
        /\ rx_buffer' = h.rx_buffer
        /\ pixel_data' = h.pixel_data
        /\ raw_pixel_data' = h.raw_pixel_data
        /\ dark_spectrum_data' = h.dark_spectrum_data
        /\ darkSpectrumSaved' = h.darkSpectrumSaved
        /\ waitingForSingleScan' = h.waitingForSingleScan
        /\ mainMenuSelection' = h.mainMenuSelection
        /\ settingsSelection' = h.settingsSelection
        /\ settingsAcqSelection' = h.settingsAcqSelection
        /\ settingsAxisSelection' = h.settingsAxisSelection
        /\ settingsEditMode' = h.settingsEditMode
        /\ spi_mosi' = h.spi_mosi
        /\ tft_graph' = h.tft_graph
        /\ wifi_sent' = h.wifi_sent
        /\ ev' = h.ev
        /\ coalesced' = h.coalesced

Did(g, what) == [g EXCEPT !.ev = Append(@, what)]

\* ------------------------------------------------------------------------
\* Bus protocol codec
\* ------------------------------------------------------------------------
\* buildCommand that stores the periods low byte first.
buildCommand_littleEndian(g) ==
    Did([g EXCEPT !.tx_buffer =
        [i \in PacketIndex |->
            CASE i = 0 -> 69
              [] i = 1 -> 82
              [] i = 2 -> g.SH_PERIOD[2] % 256
              [] i = 3 -> g.SH_PERIOD[2] \div 256
              [] i = 4 -> g.SH_PERIOD[1] % 256
              [] i = 5 -> g.SH_PERIOD[1] \div 256
              [] i = 6 -> g.ICG_PERIOD[2] % 256
              [] i = 7 -> g.ICG_PERIOD[2] \div 256
              [] i = 8 -> g.ICG_PERIOD[1] % 256
              [] i = 9 -> g.ICG_PERIOD[1] \div 256
              [] i = 10 -> 1
              [] i = 11 -> NUM_INTEGRATIONS % 256
              [] i = 12 -> (NUM_INTEGRATIONS \div 256) % 256
              [] OTHER -> 0]], "build")

buildCommand(g) ==
    Did([g EXCEPT !.tx_buffer =
        [i \in PacketIndex |->
            CASE i = 0 -> 69
              [] i = 1 -> 82
              [] i = 2 -> g.SH_PERIOD[1] \div 256
              [] i = 3 -> g.SH_PERIOD[1] % 256
              [] i = 4 -> g.SH_PERIOD[2] \div 256
              [] i = 5 -> g.SH_PERIOD[2] % 256
              [] i = 6 -> g.ICG_PERIOD[1] \div 256
              [] i = 7 -> g.ICG_PERIOD[1] % 256
              [] i = 8 -> g.ICG_PERIOD[2] \div 256
              [] i = 9 -> g.ICG_PERIOD[2] % 256
              [] i = 10 -> 1
              [] i = 11 -> (NUM_INTEGRATIONS \div 256) % 256
              [] i = 12 -> NUM_INTEGRATIONS % 256
              [] OTHER -> 0]], "build")

\* transferBytes(tx_buffer, rx_buffer, PACKET_SIZE): full duplex, the command goes out
\* while the response `frame` comes in.
readDataAndRequestNext(g, frame) ==
    Did([g EXCEPT !.spi_mosi = [op |-> "transfer", frame |-> g.tx_buffer],
                  !.rx_buffer = frame], "transfer")

\* requestFirstScan made with the full-duplex call: the idle bytes clocked in
\* overwrite rx_buffer.
requestFirstScan_duplex(g) ==
    Did([g EXCEPT !.spi_mosi = [op |-> "write", frame |-> g.tx_buffer],
                  !.rx_buffer = ZeroPacket], "kick")

\* writeBytes(tx_buffer, PACKET_SIZE): transmit only, rx_buffer is not written.
requestFirstScan(g) ==
    Did([g EXCEPT !.spi_mosi = [op |-> "write", frame |-> g.tx_buffer]], "kick")

\* processData_Raw that stores the count as received, without the inversion.
processData_Raw_uninverted(g) ==
    Did([g EXCEPT !.raw_pixel_data =
        [i \in Pixels |-> g.rx_buffer[2 * i + 1] * 256 + g.rx_buffer[2 * i]]],
        "decode")

\* processData_Raw that takes the first byte of a pixel as the most significant one.
processData_Raw_bigEndian(g) ==
    Did([g EXCEPT !.raw_pixel_data =
        [i \in Pixels |->
            (ADC_MAX_VALUE - (g.rx_buffer[2 * i] * 256 + g.rx_buffer[2 * i + 1]) + U16) % U16]],
        "decode")

\* (rx_buffer is read once, then decoded pixel by pixel.)
processData_Raw(g) ==
    CHOOSE after \in
        {Did([h EXCEPT !.raw_pixel_data =
            [i \in Pixels |->
                (ADC_MAX_VALUE - (h.rx_buffer[2 * i + 1] * 256 + h.rx_buffer[2 * i]) + U16) % U16]],
            "decode") : h \in {g}} : TRUE

\* ------------------------------------------------------------------------
\* Correction engine and sinks
\* ------------------------------------------------------------------------
\* saveDarkSpectrum that keeps a dark spectrum already saved.
saveDarkSpectrum_keepsFirst(g) ==
    Did(IF g.darkSpectrumSaved
        THEN [g EXCEPT !.tft_graph = NoGraph]
        ELSE [g EXCEPT !.dark_spectrum_data = g.raw_pixel_data,
                       !.darkSpectrumSaved = TRUE,
                       !.tft_graph = NoGraph], "save")

saveDarkSpectrum(g) ==
    Did([g EXCEPT !.dark_spectrum_data = g.raw_pixel_data,
                  !.darkSpectrumSaved = TRUE,
                  !.tft_graph = NoGraph], "save")

\* applyDarkSpectrumCorrection that subtracts in uint16_t without the comparison.
applyDarkSpectrumCorrection_wrapping(g) ==
    Did([g EXCEPT !.pixel_data =
        IF g.darkSpectrumSaved
        THEN [i \in Pixels |->
                (g.raw_pixel_data[i] - g.dark_spectrum_data[i] + U16) % U16]
        ELSE g.raw_pixel_data], "correct")

\* (The globals are read once, then corrected pixel by pixel.)
applyDarkSpectrumCorrection(g) ==
    CHOOSE after \in
        {Did([h EXCEPT !.pixel_data =
            IF h.darkSpectrumSaved
            THEN [i \in Pixels |->
                    IF h.raw_pixel_data[i] > h.dark_spectrum_data[i]
                    THEN h.raw_pixel_data[i] - h.dark_spectrum_data[i]
                    ELSE 0]
            ELSE h.raw_pixel_data], "correct") : h \in {g}} : TRUE

\* sendDataViaWiFi that puts pixel_data into network byte order in place before it
\* writes it to the client.
sendDataViaWiFi_swapsInPlace(g) ==
    LET swapped == [i \in Pixels |-> (g.pixel_data[i] % 256) * 256 + g.pixel_data[i] \div 256]
    IN  Did(IF g.clientConnected
            THEN [g EXCEPT !.pixel_data = swapped,
                           !.wifi_sent = [marker |-> PACKET_START_MARKER, data |-> swapped]]
            ELSE g, "send")

\* The call is recorded as "send", the bytes written (if a client is connected) in wifi_sent.
sendDataViaWiFi(g) ==
    Did(IF g.clientConnected
        THEN [g EXCEPT !.wifi_sent = [marker |-> PACKET_START_MARKER, data |-> g.pixel_data]]
        ELSE g, "send")

drawGraph_GFX(g, mode) ==
    Did([g EXCEPT !.tft_graph = [mode |-> mode, data |-> g.pixel_data]], "draw")

\* tft.fillScreen + tft.print of a text message
tftMessage(g) == [g EXCEPT !.tft_graph = NoGraph]


\* ------------------------------------------------------------------------
\* UI state machine
\* ------------------------------------------------------------------------
\* changeState that primes the controller before rebuilding the command.
changeState_kickFirst(g, newState) ==
    LET g1 == [g EXCEPT !.currentState = newState, !.redrawScreen = TRUE]
    IN  CASE newState = STATE_ACQUISITION_CONT ->
                buildCommand(requestFirstScan(g1))
          [] newState = STATE_ACQUISITION_SINGLE ->
                tftMessage([buildCommand(requestFirstScan(g1))
                                EXCEPT !.waitingForSingleScan = TRUE])
          [] newState = STATE_ACQUISITION_DARK ->
                tftMessage([buildCommand(requestFirstScan(g1))
                                EXCEPT !.waitingForSingleScan = TRUE])
          [] newState \in {STATE_SETTINGS, STATE_SETTINGS_ACQ, STATE_SETTINGS_AXIS} ->
                [g1 EXCEPT !.settingsEditMode = FALSE]
          [] OTHER -> g1

\* changeState that sends the command left in tx_buffer without rebuilding it.
changeState_noBuild(g, newState) ==
    LET g1 == [g EXCEPT !.currentState = newState, !.redrawScreen = TRUE]
    IN  CASE newState = STATE_ACQUISITION_CONT ->
                requestFirstScan(Did(g1, "build"))
          [] newState \in {STATE_ACQUISITION_SINGLE, STATE_ACQUISITION_DARK} ->
                tftMessage([requestFirstScan(Did(g1, "build"))
                                EXCEPT !.waitingForSingleScan = TRUE])
          [] newState \in {STATE_SETTINGS, STATE_SETTINGS_ACQ, STATE_SETTINGS_AXIS} ->
                [g1 EXCEPT !.settingsEditMode = FALSE]
          [] OTHER -> g1

\* changeState that puts the periods back to their power-on values when a mode is
\* entered.
changeState_resetsPeriods(g, newState) ==
    LET g1 == [g EXCEPT !.currentState = newState, !.redrawScreen = TRUE]
        g2 == [g1 EXCEPT !.SH_PERIOD = ToU32(SH_PERIOD_INIT),
                         !.ICG_PERIOD = ToU32(ICG_PERIOD_INIT)]
    IN  CASE newState = STATE_ACQUISITION_CONT ->
                requestFirstScan(buildCommand(g2))
          [] newState \in {STATE_ACQUISITION_SINGLE, STATE_ACQUISITION_DARK} ->
                tftMessage([requestFirstScan(buildCommand(g2))
                                EXCEPT !.waitingForSingleScan = TRUE])
          [] newState \in {STATE_SETTINGS, STATE_SETTINGS_ACQ, STATE_SETTINGS_AXIS} ->
                [g1 EXCEPT !.settingsEditMode = FALSE]
          [] OTHER -> g1

\* changeState that rebuilds the command for ContinuousScan only.
changeState_buildsContOnly(g, newState) ==
    LET g1 == [g EXCEPT !.currentState = newState, !.redrawScreen = TRUE]
    IN  CASE newState = STATE_ACQUISITION_CONT ->
                requestFirstScan(buildCommand(g1))
          [] newState \in {STATE_ACQUISITION_SINGLE, STATE_ACQUISITION_DARK} ->
                tftMessage([requestFirstScan(Did(g1, "build"))
                                EXCEPT !.waitingForSingleScan = TRUE])
          [] newState \in {STATE_SETTINGS, STATE_SETTINGS_ACQ, STATE_SETTINGS_AXIS} ->
                [g1 EXCEPT !.settingsEditMode = FALSE]
          [] OTHER -> g1

changeState(g, newState) ==
    LET g1 == [g EXCEPT !.currentState = newState, !.redrawScreen = TRUE]
    IN  CASE newState = STATE_ACQUISITION_CONT ->
                requestFirstScan(buildCommand(g1))
          [] newState = STATE_ACQUISITION_SINGLE ->
                tftMessage([requestFirstScan(buildCommand(g1))
                                EXCEPT !.waitingForSingleScan = TRUE])
          [] newState = STATE_ACQUISITION_DARK ->
                tftMessage([requestFirstScan(buildCommand(g1))
                                EXCEPT !.waitingForSingleScan = TRUE])
          [] newState \in {STATE_SETTINGS, STATE_SETTINGS_ACQ, STATE_SETTINGS_AXIS} ->
                [g1 EXCEPT !.settingsEditMode = FALSE]
          [] OTHER -> g1

\* selection += rotation, wrapping at both ends
Wrap(sel, rotation, max) ==
    LET s == sel + rotation
    IN  IF s > max THEN 0 ELSE IF s < 0 THEN max ELSE s

constrain(x, lo, hi) == IF x < lo THEN lo ELSE IF x > hi THEN hi ELSE x

handleMainMenuInput(g, rotation, click) ==
    LET g1 == IF rotation # 0
              THEN [g EXCEPT !.mainMenuSelection = Wrap(@, rotation, MAIN_MENU_MAX),
                             !.redrawScreen = TRUE]
              ELSE g
    IN  IF ~click THEN g1
        ELSE CASE g1.mainMenuSelection = 0 -> changeState(g1, STATE_ACQUISITION_CONT)
               [] g1.mainMenuSelection = 1 -> changeState(g1, STATE_ACQUISITION_SINGLE)
               [] g1.mainMenuSelection = 2 -> changeState(g1, STATE_ACQUISITION_DARK)
               [] g1.mainMenuSelection = 3 -> changeState(g1, STATE_SETTINGS)
               [] OTHER -> g1

handleSettingsInput(g, rotation, click) ==
    LET g1 == IF rotation # 0
              THEN [g EXCEPT !.settingsSelection = Wrap(@, rotation, SETTINGS_MAX),
                             !.redrawScreen = TRUE]
              ELSE g
    IN  IF ~click THEN g1
        ELSE [(CASE g1.settingsSelection = 0 -> changeState(g1, STATE_SETTINGS_ACQ)
                 [] g1.settingsSelection = 1 -> changeState(g1, STATE_SETTINGS_AXIS)
                 [] g1.settingsSelection = 2 -> changeState(g1, STATE_MAIN_MENU)
                 [] OTHER -> g1)
              EXCEPT !.redrawScreen = TRUE]

\* handleSettingsAcqInput without the two lower limits.
handleSettingsAcqInput_unclamped(g, rotation, click) ==
    IF g.settingsEditMode
    THEN LET step_time == IF rotation > 0 THEN 100 ELSE -100
             g1 == IF rotation = 0 THEN g
                   ELSE [(CASE g.settingsAcqSelection = 0 ->
                                [g EXCEPT !.SH_PERIOD = AddU32(@, step_time)]
                            [] g.settingsAcqSelection = 1 ->
                                [g EXCEPT !.ICG_PERIOD = AddU32(@, step_time * 10)]
                            [] OTHER -> g)
                         EXCEPT !.redrawScreen = TRUE]
         IN  IF click
             THEN [g1 EXCEPT !.settingsEditMode = FALSE, !.redrawScreen = TRUE]
             ELSE g1
    ELSE LET g1 == IF rotation # 0
                   THEN [g EXCEPT !.settingsAcqSelection = Wrap(@, rotation, SETTINGS_ACQ_MAX),
                                  !.redrawScreen = TRUE]
                   ELSE g
         IN  IF ~click THEN g1
             ELSE [(CASE g1.settingsAcqSelection \in {0, 1} ->
                            [g1 EXCEPT !.settingsEditMode = TRUE]
                      [] g1.settingsAcqSelection = 2 -> changeState(g1, STATE_SETTINGS)
                      [] OTHER -> g1)
                   EXCEPT !.redrawScreen = TRUE]

handleSettingsAcqInput(g, rotation, click) ==
    IF g.settingsEditMode
    THEN LET step_time == IF rotation > 0 THEN 100 ELSE -100
             sh1 == AddU32(g.SH_PERIOD, step_time)
             icg1 == AddU32(g.ICG_PERIOD, step_time * 10)
             g1 == IF rotation = 0 THEN g
                   ELSE [(CASE g.settingsAcqSelection = 0 ->
                                [g EXCEPT !.SH_PERIOD = IF LessU32(sh1, 40) THEN ToU32(40) ELSE sh1]
                            [] g.settingsAcqSelection = 1 ->
                                [g EXCEPT !.ICG_PERIOD = IF LessU32(icg1, 32000) THEN ToU32(32000) ELSE icg1]
                            [] OTHER -> g)
                         EXCEPT !.redrawScreen = TRUE]
         IN  IF click
             THEN [g1 EXCEPT !.settingsEditMode = FALSE, !.redrawScreen = TRUE]
             ELSE g1
    ELSE LET g1 == IF rotation # 0
                   THEN [g EXCEPT !.settingsAcqSelection = Wrap(@, rotation, SETTINGS_ACQ_MAX),
                                  !.redrawScreen = TRUE]
                   ELSE g
         IN  IF ~click THEN g1
             ELSE [(CASE g1.settingsAcqSelection \in {0, 1} ->
                            [g1 EXCEPT !.settingsEditMode = TRUE]
                      [] g1.settingsAcqSelection = 2 -> changeState(g1, STATE_SETTINGS)
                      [] OTHER -> g1)
                   EXCEPT !.redrawScreen = TRUE]

\* handleSettingsAxisInput that lets X Max go up to PIXEL_COUNT.
handleSettingsAxisInput_offByOne(g, rotation, click) ==
    IF g.settingsEditMode
    THEN LET step_px == IF rotation > 0 THEN 10 ELSE -10
             step_adc == IF rotation > 0 THEN 50 ELSE -50
             g1 == IF rotation = 0 THEN g
                   ELSE [(CASE g.settingsAxisSelection = 1 ->
                                [g EXCEPT !.plot_pixel_min =
                                    constrain(@ + step_px, 0, g.plot_pixel_max - 10)]
                            [] g.settingsAxisSelection = 2 ->
                                [g EXCEPT !.plot_pixel_max =
                                    constrain(@ + step_px, g.plot_pixel_min + 10, PIXEL_COUNT)]
                            [] g.settingsAxisSelection = 3 ->
                                [g EXCEPT !.plot_adc_min =
                                    constrain(@ + step_adc, 0, g.plot_adc_max - 100)]
                            [] g.settingsAxisSelection = 4 ->
                                [g EXCEPT !.plot_adc_max =
                                    constrain(@ + step_adc, g.plot_adc_min + 100, ADC_MAX_VALUE)]
                            [] OTHER -> g)
                         EXCEPT !.redrawScreen = TRUE]
         IN  IF click
             THEN [g1 EXCEPT !.settingsEditMode = FALSE, !.redrawScreen = TRUE]
             ELSE g1
    ELSE LET g1 == IF rotation # 0
                   THEN [g EXCEPT !.settingsAxisSelection = Wrap(@, rotation, SETTINGS_AXIS_MAX),
                                  !.redrawScreen = TRUE]
                   ELSE g
         IN  IF ~click THEN g1
             ELSE [(CASE g1.settingsAxisSelection \in {1, 2, 3, 4} ->
                            [g1 EXCEPT !.settingsEditMode = TRUE]
                      [] g1.settingsAxisSelection = 0 ->
                            [g1 EXCEPT !.currentXUnit =
                                IF @ = UNIT_PIXEL THEN UNIT_NM
                                ELSE IF @ = UNIT_NM THEN UNIT_CM_1 ELSE UNIT_PIXEL]
                      [] g1.settingsAxisSelection = 5 -> changeState(g1, STATE_SETTINGS)
                      [] OTHER -> g1)
                   EXCEPT !.redrawScreen = TRUE]

handleSettingsAxisInput(g, rotation, click) ==
    IF g.settingsEditMode
    THEN LET step_px == IF rotation > 0 THEN 10 ELSE -10
             step_adc == IF rotation > 0 THEN 50 ELSE -50
             g1 == IF rotation = 0 THEN g
                   ELSE [(CASE g.settingsAxisSelection = 1 ->
                                [g EXCEPT !.plot_pixel_min =
                                    constrain(@ + step_px, 0, g.plot_pixel_max - 10)]
                            [] g.settingsAxisSelection = 2 ->
                                [g EXCEPT !.plot_pixel_max =
                                    constrain(@ + step_px, g.plot_pixel_min + 10, PIXEL_COUNT - 1)]
                            [] g.settingsAxisSelection = 3 ->
                                [g EXCEPT !.plot_adc_min =
                                    constrain(@ + step_adc, 0, g.plot_adc_max - 100)]
                            [] g.settingsAxisSelection = 4 ->
                                [g EXCEPT !.plot_adc_max =
                                    constrain(@ + step_adc, g.plot_adc_min + 100, ADC_MAX_VALUE)]
                            [] OTHER -> g)
                         EXCEPT !.redrawScreen = TRUE]
         IN  IF click
             THEN [g1 EXCEPT !.settingsEditMode = FALSE, !.redrawScreen = TRUE]
             ELSE g1
    ELSE LET g1 == IF rotation # 0
                   THEN [g EXCEPT !.settingsAxisSelection = Wrap(@, rotation, SETTINGS_AXIS_MAX),
                                  !.redrawScreen = TRUE]
                   ELSE g
         IN  IF ~click THEN g1
             ELSE [(CASE g1.settingsAxisSelection \in {1, 2, 3, 4} ->
                            [g1 EXCEPT !.settingsEditMode = TRUE]
                      [] g1.settingsAxisSelection = 0 ->
                            [g1 EXCEPT !.currentXUnit =
                                IF @ = UNIT_PIXEL THEN UNIT_NM
                                ELSE IF @ = UNIT_NM THEN UNIT_CM_1 ELSE UNIT_PIXEL]
                      [] g1.settingsAxisSelection = 5 -> changeState(g1, STATE_SETTINGS)
                      [] OTHER -> g1)
                   EXCEPT !.redrawScreen = TRUE]

\* handleAcquisitionInput that reads the frame in flight before it leaves the mode.
handleAcquisitionInput_drains(g, click) ==
    IF click
    THEN changeState(readDataAndRequestNext(g, g.rx_buffer), STATE_MAIN_MENU)
    ELSE g

handleAcquisitionInput(g, click) ==
    IF click THEN changeState(g, STATE_MAIN_MENU) ELSE g

\* handleSingleInput that honours the rotation only while no request is in flight.
handleSingleInput_guarded(g, rotation) ==
    IF rotation # 0 /\ ~g.waitingForSingleScan THEN changeState(g, STATE_MAIN_MENU) ELSE g

\* case STATE_ACQUISITION_SINGLE of the switch in loop()
handleSingleInput(g, rotation) ==
    IF rotation # 0 THEN changeState(g, STATE_MAIN_MENU) ELSE g

\* The DarkCapture case without the changeState that follows saveDarkSpectrum.
handleDarkInput_staysAfterSave(g, rotation, click, longPress) ==
    LET g1 == IF click \/ rotation # 0 THEN changeState(g, STATE_MAIN_MENU) ELSE g
    IN  IF longPress THEN saveDarkSpectrum(g1) ELSE g1

\* case STATE_ACQUISITION_DARK of the switch in loop()
handleDarkInput(g, rotation, click, longPress) ==
    LET g1 == IF click \/ rotation # 0 THEN changeState(g, STATE_MAIN_MENU) ELSE g
    IN  IF longPress THEN changeState(saveDarkSpectrum(g1), STATE_MAIN_MENU) ELSE g1

\* switch (currentState) in loop(): each state hands the gestures it listens to to
\* its handler.
loopSwitch(g, rotation, click, longPress) ==
    CASE g.currentState = STATE_MAIN_MENU -> handleMainMenuInput(g, rotation, click)
      [] g.currentState = STATE_SETTINGS -> handleSettingsInput(g, rotation, click)
      [] g.currentState = STATE_SETTINGS_ACQ -> handleSettingsAcqInput(g, rotation, click)
      [] g.currentState = STATE_SETTINGS_AXIS -> handleSettingsAxisInput(g, rotation, click)
      [] g.currentState = STATE_ACQUISITION_CONT -> handleAcquisitionInput(g, click)
      [] g.currentState = STATE_ACQUISITION_SINGLE -> handleSingleInput(g, rotation)
      [] g.currentState = STATE_ACQUISITION_DARK ->
            handleDarkInput(g, rotation, click, longPress)

\* drawCurrentScreen whose menu cases lack the break and fall through to the
\* ContinuousScan case.
drawCurrentScreen_fallsThrough(g) ==
    IF g.currentState = STATE_ACQUISITION_CONT \/ g.currentState \in IdleStates
    THEN drawGraph_GFX(applyDarkSpectrumCorrection(processData_Raw(g)), STATE_ACQUISITION_CONT)
    ELSE g

drawCurrentScreen(g) ==
    IF g.currentState = STATE_ACQUISITION_CONT
    THEN drawGraph_GFX(applyDarkSpectrumCorrection(processData_Raw(g)), STATE_ACQUISITION_CONT)
    ELSE IF g.currentState \in IdleStates THEN tftMessage(g) ELSE g

\* The end of loop(): menus are redrawn when flagged, outside the acquisition states.
loopRedraw(g) ==
    IF g.redrawScreen /\ g.currentState \notin AcquisitionStates
    THEN [drawCurrentScreen(g) EXCEPT !.redrawScreen = FALSE]
    ELSE g


\* ------------------------------------------------------------------------
\* Environment: the controller's response frames and the user's gestures
\* ------------------------------------------------------------------------
\* ADC counts the controller reports: dark level, full scale, one count, one count
\* above full scale, and a count whose two bytes differ in which one is zero.
SampleCounts == <<0, 4095, 1, 4096, 256>>

\* Response frame k: pixel p carries SampleCounts[(p*k + k) mod 5], low byte first.
RxFrame(k) ==
    [i \in PacketIndex |->
        LET p == i \div 2
            c == SampleCounts[((p * k + k) % Len(SampleCounts)) + 1]
        IN  IF i % 2 = 0 THEN c % 256 ELSE c \div 256]

Frames == {RxFrame(k) : k \in 0 .. MaxFrame}

Rotations == {-1, 0, 1}

\* A release (click) and a hold (long press) are not seen in the same iteration.
Gesture(click, longPress) == ~(click /\ longPress)

\* The periods that are at most MaxEditSteps edit steps away from their power-on
\* values, SH_PERIOD below its own and ICG_PERIOD above its own.
Abs(n) == IF n < 0 THEN 0 - n ELSE n
ParamWindow ==
    {<<AddU32(ToU32(SH_PERIOD_INIT), 100 * a), AddU32(ToU32(ICG_PERIOD_INIT), 1000 * b)>> :
        <<a, b>> \in {w \in ((0 - MaxEditSteps) .. 0) \X (0 .. MaxEditSteps) :
                        Abs(w[1]) + Abs(w[2]) <= MaxEditSteps}}

\* ------------------------------------------------------------------------
\* Initial state: the globals after setup()
\* ------------------------------------------------------------------------
Init ==
    /\ currentState = STATE_MAIN_MENU
    /\ redrawScreen = TRUE
    /\ SH_PERIOD = ToU32(SH_PERIOD_INIT)
    /\ ICG_PERIOD = ToU32(ICG_PERIOD_INIT)
    /\ plot_pixel_min = 0
    /\ plot_pixel_max = PIXEL_COUNT - 1
    /\ plot_adc_min = 0
    /\ plot_adc_max = ADC_MAX_VALUE
    /\ currentXUnit = UNIT_PIXEL
    /\ rx_buffer = ZeroPacket
    /\ pixel_data = ZeroSpectrum
    /\ raw_pixel_data = ZeroSpectrum
    /\ dark_spectrum_data = ZeroSpectrum
    /\ darkSpectrumSaved = FALSE
    /\ dataReady = FALSE
    /\ waitingForSingleScan = FALSE
    /\ mainMenuSelection = 0
    /\ settingsSelection = 0
    /\ settingsAcqSelection = 0
    /\ settingsAxisSelection = 0
    /\ settingsEditMode = FALSE
    /\ clientConnected = FALSE
    /\ spi_mosi = NoExchange
    /\ tft_graph = NoGraph
    /\ wifi_sent = NoPacket
    /\ tx_buffer = buildCommand([SH_PERIOD |-> ToU32(SH_PERIOD_INIT),
                                 ICG_PERIOD |-> ToU32(ICG_PERIOD_INIT),
                                 tx_buffer |-> ZeroPacket, ev |-> <<>>]).tx_buffer
    /\ pc = "ui"
    /\ clicked = FALSE
    /\ ev = <<>>
    /\ nRequests = 0
    /\ nResults = 0
    /\ nPulses = 0
    /\ staleReady = FALSE
    /\ coalesced = 0

\* A step of loop() that makes no call.
NoOutput == ev' = <<>> /\ spi_mosi' = NoExchange /\ wifi_sent' = NoPacket /\ coalesced' = 0

\* ------------------------------------------------------------------------
\* Interrupt and network
\* ------------------------------------------------------------------------
onDataReady ==
    /\ nPulses < MaxPulses
    /\ dataReady' = TRUE
    /\ nPulses' = nPulses + 1
    /\ UNCHANGED staleReady
    /\ UNCHANGED <<gvars, outs, clientConnected, pc, clicked, nRequests, nResults>>

\* A TCP client connects or goes away; loop() accepts or stops it and flags a
\* redraw of the status line.
ClientChange ==
    /\ clientConnected' = ~clientConnected
    /\ Commit([Globals EXCEPT !.redrawScreen = TRUE, !.ev = ev, !.spi_mosi = spi_mosi,
                              !.wifi_sent = wifi_sent, !.coalesced = coalesced])
    /\ UNCHANGED <<dataReady, nPulses, staleReady, pc, clicked, nRequests, nResults>>

\* ------------------------------------------------------------------------
\* loop(): input and the switch on currentState
\* ------------------------------------------------------------------------
\* After the switch: in an acquisition state the iteration goes on to the acquisition
\* section; in a menu state that section does nothing and the iteration ends with
\* the redraw.
AfterSwitch(h, click) ==
    /\ IF h.currentState \in AcquisitionStates
       THEN Commit(h) /\ pc' = "acq" /\ clicked' = click
       ELSE Commit(loopRedraw(h)) /\ pc' = "ui" /\ clicked' = FALSE
    /\ IF h.currentState = STATE_ACQUISITION_SINGLE
       THEN IF currentState = STATE_ACQUISITION_SINGLE
            THEN UNCHANGED <<nRequests, nResults>>
            ELSE nRequests' = 1 /\ nResults' = 0
       ELSE IF currentState = STATE_ACQUISITION_SINGLE
            THEN UNCHANGED <<nRequests, nResults>>
            ELSE nRequests' = 0 /\ nResults' = 0
    /\ staleReady' = IF h.currentState \in AcquisitionStates
                   THEN IF \E k \in 1 .. Len(h.ev) : h.ev[k] = "kick" THEN dataReady ELSE staleReady
                   ELSE FALSE
    /\ UNCHANGED <<dataReady, nPulses, clientConnected>>

MainMenuIteration ==
    /\ pc = "ui"
    /\ currentState = STATE_MAIN_MENU
    /\ \E rotation \in Rotations, click \in BOOLEAN :
          AfterSwitch(handleMainMenuInput(Globals, rotation, click), click)

\* The axis screen is left to the specification of the settings screens.
SettingsIteration ==
    /\ pc = "ui"
    /\ currentState = STATE_SETTINGS
    /\ \E rotation \in Rotations, click \in BOOLEAN :
          LET h == handleSettingsInput(Globals, rotation, click)
          IN  /\ h.currentState # STATE_SETTINGS_AXIS
              /\ AfterSwitch(h, click)

SettingsAcqIteration ==
    /\ pc = "ui"
    /\ currentState = STATE_SETTINGS_ACQ
    /\ \E rotation \in Rotations, click \in BOOLEAN :
          LET h == handleSettingsAcqInput(Globals, rotation, click)
          IN  /\ <<h.SH_PERIOD, h.ICG_PERIOD>> \in ParamWindow
              /\ AfterSwitch(h, click)

ContIteration ==
    /\ pc = "ui"
    /\ currentState = STATE_ACQUISITION_CONT
    /\ \E click \in BOOLEAN :
          AfterSwitch(handleAcquisitionInput(Globals, click), click)

SingleIteration ==
    /\ pc = "ui"
    /\ currentState = STATE_ACQUISITION_SINGLE
    /\ \E rotation \in Rotations, click \in BOOLEAN :
          /\ (click /\ ~waitingForSingleScan) => nRequests < MaxRequests
          /\ AfterSwitch(handleSingleInput(Globals, rotation), click)

DarkIteration ==
    /\ pc = "ui"
    /\ currentState = STATE_ACQUISITION_DARK
    /\ \E rotation \in Rotations, click \in BOOLEAN, longPress \in BOOLEAN :
          /\ Gesture(click, longPress)
          /\ AfterSwitch(handleDarkInput(Globals, rotation, click, longPress), click)


\* ------------------------------------------------------------------------
\* loop(): the acquisition section
\* ------------------------------------------------------------------------
\* contReady publishing the raw spectrum, as darkReady does.
contReady_uncorrected(g, frame) ==
    LET g1 == processData_Raw(readDataAndRequestNext(g, frame))
    IN  drawGraph_GFX(
            sendDataViaWiFi(Did([g1 EXCEPT !.pixel_data = g1.raw_pixel_data], "correct")),
            STATE_ACQUISITION_CONT)

\* The body of `if (dataReady)` in STATE_ACQUISITION_CONT, after dataReady = false.
contReady(g, frame) ==
    drawGraph_GFX(
        sendDataViaWiFi(
            applyDarkSpectrumCorrection(
                processData_Raw(
                    readDataAndRequestNext(g, frame)))),
        STATE_ACQUISITION_CONT)

\* singleReady without the dark correction.
singleReady_uncorrected(g, frame) ==
    LET g1 == processData_Raw(
                  readDataAndRequestNext([g EXCEPT !.waitingForSingleScan = FALSE], frame))
    IN  drawGraph_GFX(
            sendDataViaWiFi(Did([g1 EXCEPT !.pixel_data = g1.raw_pixel_data], "correct")),
            STATE_ACQUISITION_SINGLE)

\* singleReady that forgets to clear the latch.
singleReady_latched(g, frame) ==
    drawGraph_GFX(
        sendDataViaWiFi(
            applyDarkSpectrumCorrection(
                processData_Raw(
                    readDataAndRequestNext(g, frame)))),
        STATE_ACQUISITION_SINGLE)

\* The body of `if (dataReady && waitingForSingleScan)` in STATE_ACQUISITION_SINGLE.
singleReady(g, frame) ==
    drawGraph_GFX(
        sendDataViaWiFi(
            applyDarkSpectrumCorrection(
                processData_Raw(
                    readDataAndRequestNext(
                        [g EXCEPT !.waitingForSingleScan = FALSE], frame)))),
        STATE_ACQUISITION_SINGLE)

\* The body of `else if (clicked && !waitingForSingleScan)` in STATE_ACQUISITION_SINGLE.
singleRequest(g) ==
    tftMessage([requestFirstScan(g) EXCEPT !.waitingForSingleScan = TRUE])

\* darkReady with the dark correction of the other two modes.
darkReady_corrected(g, frame) ==
    drawGraph_GFX(
        applyDarkSpectrumCorrection(
            processData_Raw(
                readDataAndRequestNext(
                    [g EXCEPT !.waitingForSingleScan = FALSE], frame))),
        STATE_ACQUISITION_DARK)

\* The body of `if (dataReady && waitingForSingleScan)` in STATE_ACQUISITION_DARK.
darkReady(g, frame) ==
    LET g1 == processData_Raw(
                  readDataAndRequestNext(
                      [g EXCEPT !.waitingForSingleScan = FALSE], frame))
    IN  drawGraph_GFX(Did([g1 EXCEPT !.pixel_data = g1.raw_pixel_data], "copy"),
                      STATE_ACQUISITION_DARK)

\* ContPoll that clears the flag in the test and then skips the body.
ContPoll_clears ==
    /\ pc = "acq"
    /\ currentState = STATE_ACQUISITION_CONT
    /\ dataReady' = FALSE
    /\ nPulses' = 0
    /\ staleReady' = FALSE
    /\ pc' = "ui"
    /\ clicked' = FALSE
    /\ NoOutput
    /\ UNCHANGED <<gvars, clientConnected, nRequests, nResults>>

\* if (dataReady) ...: the test of the flag in STATE_ACQUISITION_CONT
ContPoll ==
    /\ pc = "acq"
    /\ currentState = STATE_ACQUISITION_CONT
    /\ IF dataReady
       THEN pc' = "consume" /\ UNCHANGED clicked
       ELSE pc' = "ui" /\ clicked' = FALSE
    /\ NoOutput
    /\ UNCHANGED <<gvars, dataReady, nPulses, staleReady, clientConnected, nRequests, nResults>>

\* ContConsume that forgets dataReady = false.
ContConsume_keepsFlag ==
    /\ pc = "consume"
    /\ currentState = STATE_ACQUISITION_CONT
    /\ UNCHANGED <<dataReady, nPulses, staleReady>>
    /\ \E frame \in Frames :
          Commit(contReady(Did([Globals EXCEPT !.coalesced = nPulses], "clear"), frame))
    /\ pc' = "ui"
    /\ clicked' = FALSE
    /\ UNCHANGED <<clientConnected, nRequests, nResults>>

ContConsume ==
    /\ pc = "consume"
    /\ currentState = STATE_ACQUISITION_CONT
    /\ dataReady' = FALSE
    /\ nPulses' = 0
    /\ staleReady' = FALSE
    /\ \E frame \in Frames : Commit(contReady(Did([Globals EXCEPT !.coalesced = nPulses], "clear"), frame))
    /\ pc' = "ui"
    /\ clicked' = FALSE
    /\ UNCHANGED <<clientConnected, nRequests, nResults>>

\* SinglePoll that waits for the ready line while a request is in flight:
\* while (!dataReady) {} in front of the test.
SinglePoll_blocks ==
    /\ pc = "acq"
    /\ currentState = STATE_ACQUISITION_SINGLE
    /\ IF waitingForSingleScan
       THEN /\ dataReady
            /\ pc' = "consume"
            /\ NoOutput
            /\ UNCHANGED <<gvars, nRequests, staleReady>>
       ELSE IF clicked
            THEN /\ Commit(singleRequest(Globals))
                 /\ nRequests' = nRequests + 1
                 /\ staleReady' = dataReady
                 /\ pc' = "tail"
            ELSE /\ pc' = "tail"
                 /\ NoOutput
                 /\ UNCHANGED <<gvars, nRequests, staleReady>>
    /\ UNCHANGED <<dataReady, nPulses, clientConnected, clicked, nResults>>

\* SinglePoll whose second test is `else if (clicked)`, without the latch.
SinglePoll_clickWhileWaiting ==
    /\ pc = "acq"
    /\ currentState = STATE_ACQUISITION_SINGLE
    /\ IF dataReady /\ waitingForSingleScan
       THEN /\ pc' = "consume"
            /\ NoOutput
            /\ UNCHANGED <<gvars, nRequests, staleReady>>
       ELSE IF clicked
            THEN /\ Commit(singleRequest(Globals))
                 /\ nRequests' = nRequests + 1
                 /\ staleReady' = dataReady
                 /\ pc' = "tail"
            ELSE /\ pc' = "tail"
                 /\ NoOutput
                 /\ UNCHANGED <<gvars, nRequests, staleReady>>
    /\ UNCHANGED <<dataReady, nPulses, clientConnected, clicked, nResults>>

SinglePoll ==
    /\ pc = "acq"
    /\ currentState = STATE_ACQUISITION_SINGLE
    /\ IF dataReady /\ waitingForSingleScan
       THEN /\ pc' = "consume"
            /\ NoOutput
            /\ UNCHANGED <<gvars, nRequests, staleReady>>
       ELSE IF clicked /\ ~waitingForSingleScan
            THEN /\ Commit(singleRequest(Globals))
                 /\ nRequests' = nRequests + 1
                 /\ staleReady' = dataReady
                 /\ pc' = "tail"
            ELSE /\ pc' = "tail"
                 /\ NoOutput
                 /\ UNCHANGED <<gvars, nRequests, staleReady>>
    /\ UNCHANGED <<dataReady, nPulses, clientConnected, clicked, nResults>>

SingleConsume ==
    /\ pc = "consume"
    /\ currentState = STATE_ACQUISITION_SINGLE
    /\ dataReady' = FALSE
    /\ nPulses' = 0
    /\ staleReady' = FALSE
    /\ \E frame \in Frames : Commit(singleReady(Did([Globals EXCEPT !.coalesced = nPulses], "clear"), frame))
    /\ nResults' = nResults + 1
    /\ pc' = "tail"
    /\ UNCHANGED <<clientConnected, clicked, nRequests>>

DarkPoll ==
    /\ pc = "acq"
    /\ currentState = STATE_ACQUISITION_DARK
    /\ pc' = IF dataReady /\ waitingForSingleScan THEN "consume" ELSE "tail"
    /\ NoOutput
    /\ UNCHANGED <<gvars, dataReady, nPulses, staleReady, clientConnected, clicked, nRequests, nResults>>

DarkConsume ==
    /\ pc = "consume"
    /\ currentState = STATE_ACQUISITION_DARK
    /\ dataReady' = FALSE
    /\ nPulses' = 0
    /\ staleReady' = FALSE
    /\ \E frame \in Frames : Commit(darkReady(Did([Globals EXCEPT !.coalesced = nPulses], "clear"), frame))
    /\ pc' = "tail"
    /\ UNCHANGED <<clientConnected, clicked, nRequests, nResults>>

\* if (dataReady && !waitingForSingleScan) ...: the test that closes the SingleScan
\* and DarkCapture sections
TailPoll ==
    /\ pc = "tail"
    /\ IF dataReady /\ ~waitingForSingleScan
       THEN pc' = "tailclear" /\ UNCHANGED clicked
       ELSE pc' = "ui" /\ clicked' = FALSE
    /\ NoOutput
    /\ UNCHANGED <<gvars, dataReady, nPulses, staleReady, clientConnected, nRequests, nResults>>

\* ... dataReady = false: a ready event nobody waits for is dropped
TailClear ==
    /\ pc = "tailclear"
    /\ dataReady' = FALSE
    /\ nPulses' = 0
    /\ staleReady' = FALSE
    /\ pc' = "ui"
    /\ clicked' = FALSE
    /\ ev' = <<"discard">>
    /\ spi_mosi' = NoExchange
    /\ wifi_sent' = NoPacket
    /\ coalesced' = 0
    /\ UNCHANGED <<gvars, clientConnected, nRequests, nResults>>

\* ------------------------------------------------------------------------
\* Specification
\* ------------------------------------------------------------------------
Next ==
    \/ onDataReady
    \/ ClientChange
    \/ MainMenuIteration
    \/ SettingsIteration
    \/ SettingsAcqIteration
    \/ ContIteration
    \/ SingleIteration
    \/ DarkIteration
    \/ ContPoll
    \/ ContConsume
    \/ SinglePoll
    \/ SingleConsume
    \/ DarkPoll
    \/ DarkConsume
    \/ TailPoll
    \/ TailClear

Spec == Init /\ [][Next]_vars


\* ------------------------------------------------------------------------
\* The acquisition states under fair scheduling
\* ------------------------------------------------------------------------
\* The main menu as the way into the three acquisition states; the settings
\* screens, on which no acquisition runs, are left to Spec.
AcquisitionMenuIteration ==
    /\ pc = "ui"
    /\ currentState = STATE_MAIN_MENU
    /\ \E rotation \in Rotations, click \in BOOLEAN :
          LET h == handleMainMenuInput(Globals, rotation, click)
          IN  /\ h.currentState # STATE_SETTINGS
              /\ AfterSwitch(h, click)

\* A step of loop() in an acquisition state.
AcquisitionLoop ==
    \/ ContIteration
    \/ SingleIteration
    \/ DarkIteration
    \/ ContPoll
    \/ ContConsume
    \/ SinglePoll
    \/ SingleConsume
    \/ DarkPoll
    \/ DarkConsume
    \/ TailPoll
    \/ TailClear

\* The iteration of loop() in which the switch sees the gesture that leaves the
\* acquisition state.
ExitGesture ==
    /\ pc = "ui"
    /\ ContIteration \/ SingleIteration \/ DarkIteration
    /\ currentState' \in IdleStates

NextLive ==
    \/ onDataReady
    \/ ClientChange
    \/ AcquisitionMenuIteration
    \/ AcquisitionLoop

\* The program as the board runs it: the Arduino core calls loop() again whenever it
\* returns and nothing in loop() waits, so a step of loop() that is possible is
\* eventually taken; the user who wants to leave an acquisition state repeats the
\* gesture until an iteration reads it. Nothing is assumed of the ready line, of the
\* frames or of the network.
SpecLive ==
    Init /\ [][NextLive]_vars /\ WF_vars(AcquisitionLoop) /\ SF_vars(ExitGesture)

\* ------------------------------------------------------------------------
\* Reference definitions used by the properties
\* ------------------------------------------------------------------------
Called(what) == \E k \in 1 .. Len(ev) : ev[k] = what

\* raw - dark, clamped at zero
ClampedDifference(raw, dark) == IF raw - dark > 0 THEN raw - dark ELSE 0

\* The 16-bit count of pixel i in a response frame, low byte first.
FrameCount(frame, i) == frame[2 * i] + 256 * frame[2 * i + 1]

\* The command frame of the wire format: "ER", shPeriod and icgPeriod big-endian,
\* the mode byte, the integration count big-endian, then zeros.
CommandHeader(sh, icg) ==
    <<69, 82,
      sh[1] \div 256, sh[1] % 256, sh[2] \div 256, sh[2] % 256,
      icg[1] \div 256, icg[1] % 256, icg[2] \div 256, icg[2] % 256,
      1, NUM_INTEGRATIONS \div 256, NUM_INTEGRATIONS % 256>>
CommandFrame(sh, icg) ==
    [i \in PacketIndex |->
        IF i < Len(CommandHeader(sh, icg)) THEN CommandHeader(sh, icg)[i + 1] ELSE 0]

\* How often a step of loop() made the call `what`.
Calls(log, what) == Len(SelectSeq(log, LAMBDA e : e = what))

\* A step of loop() that consumes a ready event: the clear of the flag and all that
\* follows it in the same branch.
ConsumeStep == pc = "consume" /\ pc' # pc

ReadySequence == <<"clear", "transfer", "decode", "correct", "send", "draw">>
DarkReadySequence == <<"clear", "transfer", "decode", "copy", "draw">>

\* The globals g as they would be with a client connected (c) or without one.
WithClient(g, c) == [g EXCEPT !.clientConnected = c]

\* What the acquisition core holds and does, the transport sink left aside: the mode,
\* the latch, the parameters, the buffers and spectra, the bus exchange, the graph
\* and the calls made.
Core(g) ==
    <<g.currentState, g.waitingForSingleScan, g.SH_PERIOD, g.ICG_PERIOD,
      g.tx_buffer, g.rx_buffer, g.raw_pixel_data, g.dark_spectrum_data,
      g.darkSpectrumSaved, g.pixel_data, g.spi_mosi, g.tft_graph, g.ev>>

\* The ready branch of the acquisition state of g.
ReadyBranch(g, frame) ==
    CASE g.currentState = STATE_ACQUISITION_CONT -> contReady(g, frame)
      [] g.currentState = STATE_ACQUISITION_SINGLE -> singleReady(g, frame)
      [] g.currentState = STATE_ACQUISITION_DARK -> darkReady(g, frame)

\* The most significant byte first.
BigEndian16(b0, b1) == 256 * b0 + b1

\* ------------------------------------------------------------------------
\* The functions of the codec and of the correction engine, called alone
\* ------------------------------------------------------------------------
\* The globals after setup().
AfterSetup ==
    [currentState |-> STATE_MAIN_MENU, redrawScreen |-> TRUE,
     SH_PERIOD |-> ToU32(SH_PERIOD_INIT), ICG_PERIOD |-> ToU32(ICG_PERIOD_INIT),
     plot_pixel_min |-> 0, plot_pixel_max |-> PIXEL_COUNT - 1,
     plot_adc_min |-> 0, plot_adc_max |-> ADC_MAX_VALUE,
     currentXUnit |-> UNIT_PIXEL,
     tx_buffer |-> CommandFrame(ToU32(SH_PERIOD_INIT), ToU32(ICG_PERIOD_INIT)),
     rx_buffer |-> ZeroPacket,
     pixel_data |-> ZeroSpectrum, raw_pixel_data |-> ZeroSpectrum,
     dark_spectrum_data |-> ZeroSpectrum, darkSpectrumSaved |-> FALSE,
     waitingForSingleScan |-> FALSE,
     mainMenuSelection |-> 0, settingsSelection |-> 0, settingsAcqSelection |-> 0,
     settingsAxisSelection |-> 0, settingsEditMode |-> FALSE,
     tft_graph |-> NoGraph]

\* The globals are those of the record g and nothing has been put out; loop() stands
\* at `at`.
Harness(g, at) ==
    /\ currentState = g.currentState
    /\ redrawScreen = g.redrawScreen
    /\ SH_PERIOD = g.SH_PERIOD
    /\ ICG_PERIOD = g.ICG_PERIOD
    /\ plot_pixel_min = g.plot_pixel_min
    /\ plot_pixel_max = g.plot_pixel_max
    /\ plot_adc_min = g.plot_adc_min
    /\ plot_adc_max = g.plot_adc_max
    /\ currentXUnit = g.currentXUnit
    /\ tx_buffer = g.tx_buffer
    /\ rx_buffer = g.rx_buffer
    /\ pixel_data = g.pixel_data
    /\ raw_pixel_data = g.raw_pixel_data
    /\ dark_spectrum_data = g.dark_spectrum_data
    /\ darkSpectrumSaved = g.darkSpectrumSaved
    /\ waitingForSingleScan = g.waitingForSingleScan
    /\ mainMenuSelection = g.mainMenuSelection
    /\ settingsSelection = g.settingsSelection
    /\ settingsAcqSelection = g.settingsAcqSelection
    /\ settingsAxisSelection = g.settingsAxisSelection
    /\ settingsEditMode = g.settingsEditMode
    /\ tft_graph = g.tft_graph
    /\ ev = <<>>
    /\ spi_mosi = NoExchange
    /\ wifi_sent = NoPacket
    /\ coalesced = 0
    /\ dataReady = FALSE
    /\ nPulses = 0
    /\ staleReady = FALSE
    /\ clientConnected = FALSE
    /\ pc = at
    /\ clicked = FALSE
    /\ nRequests = 0
    /\ nResults = 0

\* One call of the function f on the globals.
CallAlone(after) ==
    /\ pc = "call"
    /\ Commit(after)
    /\ pc' = "done"
    /\ UNCHANGED <<dataReady, nPulses, staleReady, clientConnected, clicked, nRequests, nResults>>

\* -- applyDarkSpectrumCorrection ------------------------------------------------
\* uint16_t samples at the ends and in the middle of the range.
EdgeSamples == <<0, 1, 4095, 32768, 65535>>
SampleVector(a, b) ==
    [i \in Pixels |-> EdgeSamples[((i * a + b) % Len(EdgeSamples)) + 1]]
SampleVectors ==
    {SampleVector(a, b) : a \in 0 .. MaxStride, b \in 0 .. (Len(EdgeSamples) - 1)}

\* Any raw spectrum can have been decoded and, once one was saved, any dark spectrum;
\* until then dark_spectrum_data is zero.  pixel_data holds an older spectrum.
InitCorrection ==
    \E raw \in SampleVectors, dark \in SampleVectors, saved \in BOOLEAN :
        /\ ~saved => dark = ZeroSpectrum
        /\ Harness([AfterSetup EXCEPT !.raw_pixel_data = raw,
                                      !.dark_spectrum_data = dark,
                                      !.darkSpectrumSaved = saved,
                                      !.pixel_data = SampleVector(1, 3)], "call")

CallCorrection == CallAlone(applyDarkSpectrumCorrection(Globals))

NextCorrection == CallCorrection

SpecCorrection == InitCorrection /\ [][NextCorrection]_vars

\* -- buildCommand ---------------------------------------------------------------
\* Periods the settings screen can reach: SH_PERIOD moves in steps of 100 from
\* 5000000 and from 40 and wraps around 2^32, ICG_PERIOD moves in steps of 1000.
EdgeShPeriods ==
    {<<0, 40>>, <<76, 19264>>, <<258, 772>>, <<65535, 65532>>,
     <<32768, 0>>, <<0, 65280>>, <<255, 0>>, <<65280, 65280>>}
EdgeIcgPeriods ==
    {<<0, 32000>>, <<0, 33000>>, <<76, 19264>>, <<1000, 0>>,
     <<65535, 65240>>, <<32768, 352>>, <<258, 712>>, <<65279, 65456>>}

\* tx_buffer still holds the command that setup() built.
InitCommand ==
    \E sh \in EdgeShPeriods, icg \in EdgeIcgPeriods :
        Harness([AfterSetup EXCEPT !.SH_PERIOD = sh, !.ICG_PERIOD = icg], "call")

CallBuildCommand == CallAlone(buildCommand(Globals))

NextCommand == CallBuildCommand

SpecCommand == InitCommand /\ [][NextCommand]_vars

\* -- processData_Raw ------------------------------------------------------------
\* Bytes the controller may send for either half of a count.
EdgeBytes == <<0, 1, 15, 16, 255, 128>>
\* Pixel p carries, first, the byte number x + p*a and, second, the byte number y + p*b.
ResponseFrame(x, y, a, b) ==
    [i \in PacketIndex |->
        LET p == i \div 2
        IN  IF i % 2 = 0
            THEN EdgeBytes[((x + p * a) % Len(EdgeBytes)) + 1]
            ELSE EdgeBytes[((y + p * b) % Len(EdgeBytes)) + 1]]
ResponseFrames ==
    {ResponseFrame(x, y, a, b) : x \in 0 .. (Len(EdgeBytes) - 1),
                                 y \in 0 .. (Len(EdgeBytes) - 1),
                                 a \in 0 .. MaxStride, b \in 0 .. MaxStride}

\* A frame has been received; raw_pixel_data holds an older spectrum.
InitDecode ==
    \E frame \in ResponseFrames :
        Harness([AfterSetup EXCEPT !.rx_buffer = frame,
                                  !.raw_pixel_data = SampleVector(1, 3)], "call")

CallProcessData == CallAlone(processData_Raw(Globals))

NextDecode == CallProcessData

SpecDecode == InitDecode /\ [][NextDecode]_vars

\* -- the settings screens, with the periods near their lower limits -------------
\* The periods within MaxEditSteps + 1 steps of zero and of their lower limits,
\* on either side.
LowShWindow ==
    {AddU32(ToU32(base), 100 * k) :
        base \in {0, 40}, k \in (0 - (MaxEditSteps + 1)) .. (MaxEditSteps + 1)}
LowIcgWindow ==
    {ToU32(32000 + 1000 * k) : k \in (0 - (MaxEditSteps + 1)) .. (MaxEditSteps + 1)}

\* The acquisition settings screen after SH_PERIOD has been turned down from 5000000
\* to 200 and ICG_PERIOD to 33000, SH_PERIOD still being edited; no mode has been
\* entered since setup().
InitParams ==
    Harness([AfterSetup EXCEPT !.currentState = STATE_SETTINGS_ACQ,
                               !.redrawScreen = FALSE,
                               !.mainMenuSelection = 3,
                               !.settingsEditMode = TRUE,
                               !.SH_PERIOD = ToU32(200),
                               !.ICG_PERIOD = ToU32(33000)], "ui")

ParamsAcqIteration ==
    /\ pc = "ui"
    /\ currentState = STATE_SETTINGS_ACQ
    /\ \E rotation \in Rotations, click \in BOOLEAN :
          LET h == handleSettingsAcqInput(Globals, rotation, click)
          IN  /\ h.SH_PERIOD \in LowShWindow
              /\ h.ICG_PERIOD \in LowIcgWindow
              /\ AfterSwitch(h, click)

\* The settings screen, from which this specification only returns to the
\* acquisition settings.
ParamsSettingsIteration ==
    /\ pc = "ui"
    /\ currentState = STATE_SETTINGS
    /\ \E rotation \in Rotations, click \in BOOLEAN :
          LET h == handleSettingsInput(Globals, rotation, click)
          IN  /\ h.currentState \in {STATE_SETTINGS, STATE_SETTINGS_ACQ}
              /\ AfterSwitch(h, click)

NextParams ==
    \/ ParamsAcqIteration
    \/ ParamsSettingsIteration

SpecParams == InitParams /\ [][NextParams]_vars

\* max(min, v - step) for a uint32_t v, computed in the integers
DecrementClamped(v, step, min) ==
    IF v[1] = 0 /\ v[2] < min + step THEN ToU32(min) ELSE AddU32(v, 0 - step)

\* a <= b for two uint32_t
LessEqU32(a, b) == a[1] < b[1] \/ (a[1] = b[1] /\ a[2] <= b[2])

\* ------------------------------------------------------------------------
\* The axis settings screen and the pixels the graph reads
\* ------------------------------------------------------------------------
\* The width of the display in its native orientation and the margin of the plot.
TFT_WIDTH == 320
MARGEM_X == 30

\* Arduino's map(), in integers.
map(x, in_min, in_max, out_min, out_max) ==
    ((x - in_min) * (out_max - out_min)) \div (in_max - in_min) + out_min

\* The indices at which drawGraph_GFX reads pixel_data: plot_pixel_min for the first
\* point, then one index for every column of the plot.
drawGraph_GFX_indices(g) ==
    LET plot_w == (TFT_WIDTH - MARGEM_X) - MARGEM_X
    IN  {g.plot_pixel_min} \cup
        {map(x_plot, 0, plot_w - 1, g.plot_pixel_min, g.plot_pixel_max) :
            x_plot \in 1 .. (plot_w - 1)}

\* The ADC limits the specification of the axis screen follows: Y Min near the
\* bottom, Y Max near full scale or near its lower stop.
AxisWindow(g) ==
    /\ g.plot_adc_min <= 50 * (MaxEditSteps + 1)
    /\ \/ g.plot_adc_max >= ADC_MAX_VALUE - 50 * (MaxEditSteps + 1)
       \/ g.plot_adc_max <= 100 + 50 * (MaxEditSteps + 2)

\* The axis settings screen after setup(), with Y Max at full scale or turned all
\* the way down to its lower stop, 100 counts above Y Min.
InitAxis ==
    \E adc_max \in {ADC_MAX_VALUE, 100} :
        Harness([AfterSetup EXCEPT !.currentState = STATE_SETTINGS_AXIS,
                                   !.redrawScreen = FALSE,
                                   !.mainMenuSelection = 3,
                                   !.settingsSelection = 1,
                                   !.plot_adc_max = adc_max], "ui")

AxisIteration ==
    /\ pc = "ui"
    /\ currentState = STATE_SETTINGS_AXIS
    /\ \E rotation \in Rotations, click \in BOOLEAN :
          LET h == handleSettingsAxisInput(Globals, rotation, click)
          IN  /\ AxisWindow(h)
              /\ AfterSwitch(h, click)

\* The settings screen, from which this specification only returns to the axis
\* screen.
AxisSettingsIteration ==
    /\ pc = "ui"
    /\ currentState = STATE_SETTINGS
    /\ \E rotation \in Rotations, click \in BOOLEAN :
          LET h == handleSettingsInput(Globals, rotation, click)
          IN  /\ h.currentState \in {STATE_SETTINGS, STATE_SETTINGS_AXIS}
              /\ AfterSwitch(h, click)

NextAxis ==
    \/ AxisIteration
    \/ AxisSettingsIteration

SpecAxis == InitAxis /\ [][NextAxis]_vars

SettingsStates == {STATE_SETTINGS, STATE_SETTINGS_ACQ, STATE_SETTINGS_AXIS}

\* A step of the settings screen that moves its selection to the item that opens the
\* axis settings screen.
AxisItemSelected ==
    /\ currentState' = STATE_SETTINGS
    /\ settingsSelection' = 1
    /\ settingsSelection # 1

\* The globals as the axis settings screen finds them when it is entered from the
\* settings screen and the user has moved to item sel, editing it or not.
OnAxisScreen(sel, edit) ==
    [Globals EXCEPT !.currentState = STATE_SETTINGS_AXIS,
                    !.settingsAxisSelection = sel,
                    !.settingsEditMode = edit]

\* ------------------------------------------------------------------------
\* Properties
\* ------------------------------------------------------------------------

\* C1: once a dark spectrum is saved, every spectrum ContinuousScan publishes (on the
\* display, and in the packet when one is written) is, pixel by pixel, the raw
\* spectrum decoded in the same cycle minus the saved dark spectrum, clamped at zero.
Thm_C1 ==
    (currentState = STATE_ACQUISITION_CONT /\ Called("draw") /\ darkSpectrumSaved) =>
        /\ tft_graph.mode = STATE_ACQUISITION_CONT
        /\ \A i \in Pixels :
            /\ raw_pixel_data[i] = (ADC_MAX_VALUE - FrameCount(rx_buffer, i) + U16) % U16
            /\ tft_graph.data[i] = ClampedDifference(raw_pixel_data[i], dark_spectrum_data[i])
            /\ wifi_sent # NoPacket =>
                 wifi_sent.data[i] = ClampedDifference(raw_pixel_data[i], dark_spectrum_data[i])

\* A ContinuousScan publication, to both sinks, in which the subtraction shows: some
\* pixel lies above its non-zero dark level.
Wit_C1 ==
    /\ currentState = STATE_ACQUISITION_CONT
    /\ Called("draw")
    /\ darkSpectrumSaved
    /\ wifi_sent # NoPacket
    /\ \E i \in Pixels : dark_spectrum_data[i] > 0 /\ raw_pixel_data[i] > dark_spectrum_data[i]
    /\ \E i \in Pixels : raw_pixel_data[i] > 0 /\ raw_pixel_data[i] <= dark_spectrum_data[i]

\* C2: in SingleScan a consumed ready event publishes one corrected spectrum, clears
\* the latch and stays in SingleScan; leaving SingleScan leads to the main menu
\* without a bus exchange; and no step that ends in an Idle state makes one.
Thm_C2 ==
    [][/\ (pc = "consume" /\ currentState = STATE_ACQUISITION_SINGLE /\ pc' # pc) =>
            /\ currentState' = STATE_ACQUISITION_SINGLE
            /\ ~waitingForSingleScan'
            /\ nResults' = nResults + 1
            /\ Len(SelectSeq(ev', LAMBDA e : e = "draw")) = 1
            /\ Len(SelectSeq(ev', LAMBDA e : e = "send")) = 1
            /\ tft_graph' = [mode |-> STATE_ACQUISITION_SINGLE, data |-> pixel_data']
            /\ \A i \in Pixels :
                 pixel_data'[i] =
                    IF darkSpectrumSaved
                    THEN ClampedDifference(raw_pixel_data'[i], dark_spectrum_data[i])
                    ELSE raw_pixel_data'[i]
       /\ (currentState = STATE_ACQUISITION_SINGLE /\ currentState' # currentState) =>
            /\ currentState' = STATE_MAIN_MENU
            /\ spi_mosi' = NoExchange
       /\ currentState' \in IdleStates => spi_mosi' = NoExchange
      ]_vars

\* The first result of a SingleScan session, shown with a dark spectrum in force.
Wit_C2 ==
    /\ currentState = STATE_ACQUISITION_SINGLE
    /\ pc = "tail"
    /\ Called("draw")
    /\ ~waitingForSingleScan
    /\ nRequests = 1 /\ nResults = 1
    /\ darkSpectrumSaved
    /\ tft_graph.data # raw_pixel_data

\* C3: in SingleScan the only frames put on the bus are kick-starts (transmit-only
\* writes); retrieving a result sends no command frame.
Cex_C3 ==
    (currentState = STATE_ACQUISITION_SINGLE /\ spi_mosi # NoExchange) =>
        spi_mosi.op = "write"

\* C4: in a SingleScan session the results never outnumber the requests (the mode
\* selection and every accepted click); a result leaves the state in SingleScan with
\* the latch clear, and SingleScan is left only by the user, at the top of an iteration.
Thm_C4 ==
    [][/\ currentState' = STATE_ACQUISITION_SINGLE => nResults' <= nRequests'
       /\ (currentState = STATE_ACQUISITION_SINGLE /\ nResults' # nResults) =>
            /\ currentState' = STATE_ACQUISITION_SINGLE
            /\ ~waitingForSingleScan'
            /\ Called("decode")' /\ Called("draw")'
       /\ (currentState = STATE_ACQUISITION_SINGLE /\ ~waitingForSingleScan
               /\ currentState' = currentState /\ waitingForSingleScan') =>
            /\ clicked
            /\ nRequests' = nRequests + 1
            /\ ev' = <<"kick">>
       /\ (currentState = STATE_ACQUISITION_SINGLE /\ currentState' # currentState) =>
            /\ pc = "ui"
            /\ currentState' = STATE_MAIN_MENU
      ]_vars

\* The second result of a session, after the second request.
Wit_C4 ==
    /\ currentState = STATE_ACQUISITION_SINGLE
    /\ Called("draw")
    /\ nRequests = 2 /\ nResults = 2
    /\ ~waitingForSingleScan

\* C5 as stated: SingleScan is left for Idle only in a state where the latch is clear.
Cex_C5 ==
    [][(currentState = STATE_ACQUISITION_SINGLE /\ currentState' \in IdleStates) =>
            ~waitingForSingleScan]_vars

\* C5 as amended: a rotation seen at the top of an iteration leaves SingleScan for
\* the main menu whether or not the latch is armed; that iteration makes no bus
\* exchange and decodes nothing, the spectra and the latch stay as they were, and
\* SingleScan is never left from anywhere but the top of an iteration.
Thm_C5 ==
    [][/\ (pc' = "ui" /\ currentState' = STATE_ACQUISITION_SINGLE) =>
            \A rotation \in Rotations \ {0} :
                LET h == handleSingleInput(Globals', rotation)
                IN  /\ h.currentState = STATE_MAIN_MENU
                    /\ h.waitingForSingleScan = waitingForSingleScan'
                    /\ h.ev = <<>>
                    /\ h.spi_mosi = NoExchange
       /\ (currentState = STATE_ACQUISITION_SINGLE /\ currentState' # currentState) =>
            /\ pc = "ui" /\ pc' = "ui"
            /\ currentState' = STATE_MAIN_MENU
            /\ waitingForSingleScan' = waitingForSingleScan
            /\ spi_mosi' = NoExchange
            /\ ev' = <<>>
            /\ UNCHANGED <<rx_buffer, raw_pixel_data, pixel_data, dataReady>>
      ]_vars

\* The main menu, entered from SingleScan with the request still in flight.
Wit_C5 ==
    /\ currentState = STATE_MAIN_MENU
    /\ waitingForSingleScan
    /\ nRequests = 2 /\ nResults = 1
    /\ spi_mosi = NoExchange

\* C6: the capture-dark action takes effect only when a result of the current
\* DarkCapture session is available, that is, with the latch clear.
Cex_C6 ==
    [][(currentState = STATE_ACQUISITION_DARK /\ currentState' # currentState
            /\ Called("save")') => ~waitingForSingleScan]_vars

\* C7: every step from an Idle state into an acquisition mode rebuilds the command
\* from the current parameters, then makes exactly one transmit-only exchange, of
\* that command; SingleScan and DarkCapture are entered with the latch armed.
Thm_C7 ==
    [][(currentState \in IdleStates /\ currentState' \in AcquisitionStates) =>
            /\ ev' = <<"build", "kick">>
            /\ tx_buffer' = CommandFrame(SH_PERIOD', ICG_PERIOD')
            /\ spi_mosi' = [op |-> "write", frame |-> CommandFrame(SH_PERIOD, ICG_PERIOD)]
            /\ UNCHANGED <<SH_PERIOD, ICG_PERIOD, rx_buffer>>
            /\ currentState' \in {STATE_ACQUISITION_SINGLE, STATE_ACQUISITION_DARK} =>
                 waitingForSingleScan'
      ]_vars

\* A mode entered after a settings edit: the command on the bus is not the one
\* that setup() built.
Wit_C7 ==
    /\ currentState = STATE_ACQUISITION_DARK
    /\ ev = <<"build", "kick">>
    /\ waitingForSingleScan
    /\ spi_mosi.op = "write"
    /\ spi_mosi.frame # CommandFrame(ToU32(SH_PERIOD_INIT), ToU32(ICG_PERIOD_INIT))

\* C8: every consumed ready event hands the spectrum to both sinks, the display and
\* the transport routine.
Cex_C8 ==
    spi_mosi.op = "transfer" => (Called("draw") /\ Called("send"))

\* C9: in DarkCapture the displayed spectrum is the decoded raw spectrum, pixel for
\* pixel, whether or not a dark spectrum is stored.
Thm_C9 ==
    tft_graph.mode = STATE_ACQUISITION_DARK =>
        \A i \in Pixels :
            /\ tft_graph.data[i] = raw_pixel_data[i]
            /\ tft_graph.data[i] = (ADC_MAX_VALUE - FrameCount(rx_buffer, i) + U16) % U16

\* A DarkCapture display with a dark spectrum stored that a subtraction would change.
Wit_C9 ==
    /\ tft_graph.mode = STATE_ACQUISITION_DARK
    /\ darkSpectrumSaved
    /\ \E i \in Pixels : dark_spectrum_data[i] > 0 /\ raw_pixel_data[i] > 0

\* C10 as stated: the flag is never cleared without the decode, correct and publish
\* sequence running.
Cex_C10 ==
    [][(dataReady /\ ~dataReady') =>
            (Called("decode")' /\ Called("correct")' /\ Called("draw")')]_vars

\* C10 as amended: in ContinuousScan a flag found set is cleared and the sequence
\* transfer, decode, correct, send, draw runs before the next poll; in SingleScan and
\* DarkCapture that happens only with the latch armed (DarkCapture copies instead of
\* correcting and does not send), and with the latch clear a set flag is dropped
\* with nothing decoded; in the Idle states the flag is never cleared.
Thm_C10 ==
    [][/\ (dataReady /\ ~dataReady') =>
            \/ /\ currentState = STATE_ACQUISITION_CONT
               /\ ev' = ReadySequence
            \/ /\ currentState = STATE_ACQUISITION_SINGLE /\ waitingForSingleScan
               /\ ev' = ReadySequence
            \/ /\ currentState = STATE_ACQUISITION_DARK /\ waitingForSingleScan
               /\ ev' = DarkReadySequence
            \/ /\ currentState \in {STATE_ACQUISITION_SINGLE, STATE_ACQUISITION_DARK}
               /\ ~waitingForSingleScan
               /\ ev' = <<"discard">>
               /\ UNCHANGED <<rx_buffer, raw_pixel_data, pixel_data, tft_graph>>
       /\ (pc = "acq" /\ pc' # pc /\ currentState = STATE_ACQUISITION_CONT /\ dataReady) =>
            pc' = "consume"
       /\ (pc = "consume" /\ pc' # pc) => (~dataReady' /\ Called("draw")')
       /\ (currentState \in IdleStates /\ dataReady) => dataReady'
      ]_vars

\* A ready event dropped in SingleScan with the latch clear.
Wit_C10 ==
    /\ currentState = STATE_ACQUISITION_SINGLE
    /\ ev = <<"discard">>
    /\ ~dataReady
    /\ ~waitingForSingleScan
    /\ nResults = 1

\* C11: the flag holds at most one pending event. It is set exactly while pulses have
\* arrived since its last clear, however many; a pulse changes nothing but the flag,
\* wherever loop() stands (before the test, or between the test and the clear); a
\* consumption takes all pending pulses with its one clear and makes exactly one bus
\* exchange and one decode for them; nothing is consumed without a pending pulse; and
\* in ContinuousScan a poll that finds the flag set goes on to consume.
Thm_C11 ==
    [][/\ dataReady' = (nPulses' >= 1)
       /\ nPulses' > nPulses =>
            /\ nPulses' = nPulses + 1
            /\ UNCHANGED <<gvars, outs, pc, clicked>>
       /\ ConsumeStep =>
            /\ nPulses >= 1
            /\ coalesced' = nPulses
            /\ nPulses' = 0
            /\ Calls(ev', "clear") = 1
            /\ Calls(ev', "transfer") = 1
            /\ Calls(ev', "decode") = 1
            /\ spi_mosi'.op = "transfer"
       /\ (~ConsumeStep /\ outs' # outs) =>
            /\ ~Called("transfer")' /\ ~Called("decode")'
            /\ coalesced' = 0
       /\ pc' = "consume" => nPulses' >= 1
       /\ (pc = "acq" /\ pc' # pc /\ currentState = STATE_ACQUISITION_CONT) =>
            (pc' = "consume") = (nPulses >= 1)
      ]_vars

\* ContinuousScan after a consumption that took several pulses at once.
Wit_C11 ==
    /\ currentState = STATE_ACQUISITION_CONT
    /\ pc = "ui"
    /\ coalesced >= 2
    /\ Calls(ev, "transfer") = 1
    /\ ~dataReady

\* C12: a received frame is decoded and published before any other exchange can
\* write rx_buffer. A consumption is, in this order, the clear of the flag, one
\* exchange, the decode of the frame that exchange received, and the publication of
\* the spectrum derived from it, with no kick-start among them; rx_buffer changes in
\* no other step, so a kick-start never writes it.
Thm_C12 ==
    [][/\ ConsumeStep =>
            /\ SubSeq(ev', 1, 3) = <<"clear", "transfer", "decode">>
            /\ ev'[Len(ev')] = "draw"
            /\ Calls(ev', "transfer") + Calls(ev', "kick") = 1
            /\ rx_buffer' \in Frames
            /\ \A i \in Pixels :
                 /\ raw_pixel_data'[i] =
                        (ADC_MAX_VALUE - FrameCount(rx_buffer', i) + U16) % U16
                 /\ pixel_data'[i] =
                        IF darkSpectrumSaved /\ currentState # STATE_ACQUISITION_DARK
                        THEN ClampedDifference(raw_pixel_data'[i], dark_spectrum_data[i])
                        ELSE raw_pixel_data'[i]
            /\ tft_graph'.data = pixel_data'
            /\ wifi_sent' # NoPacket => wifi_sent'.data = pixel_data'
       /\ rx_buffer' # rx_buffer => ConsumeStep
       /\ (~ConsumeStep /\ outs' # outs) => ~Called("transfer")'
      ]_vars

\* The second result of a SingleScan session, received over the first one and
\* published to both sinks.
Wit_C12 ==
    /\ currentState = STATE_ACQUISITION_SINGLE
    /\ nResults = 2
    /\ Called("transfer")
    /\ rx_buffer = RxFrame(1)
    /\ tft_graph.data = pixel_data
    /\ wifi_sent # NoPacket

\* C13: for every raw and dark vector of uint16_t samples the correction returns the
\* raw vector when no dark spectrum is stored, and otherwise, pixel by pixel, raw
\* minus dark where raw is above dark and zero elsewhere; no result wraps around
\* (none exceeds its raw sample).
Thm_C13 ==
    pc = "done" =>
        \A i \in Pixels :
            /\ ~darkSpectrumSaved => pixel_data[i] = raw_pixel_data[i]
            /\ (darkSpectrumSaved /\ raw_pixel_data[i] > dark_spectrum_data[i]) =>
                    pixel_data[i] + dark_spectrum_data[i] = raw_pixel_data[i]
            /\ (darkSpectrumSaved /\ raw_pixel_data[i] <= dark_spectrum_data[i]) =>
                    pixel_data[i] = 0
            /\ pixel_data[i] \in 0 .. raw_pixel_data[i]

\* A corrected vector with a pixel above its dark level, a pixel below it (where
\* uint16_t subtraction would wrap) and a pixel equal to it.
Wit_C13 ==
    /\ pc = "done"
    /\ ev = <<"correct">>
    /\ darkSpectrumSaved
    /\ \E i \in Pixels : pixel_data[i] > 0 /\ dark_spectrum_data[i] > 0
    /\ \E i \in Pixels : raw_pixel_data[i] < dark_spectrum_data[i] /\ pixel_data[i] = 0
    /\ \E i \in Pixels : raw_pixel_data[i] = dark_spectrum_data[i] /\ raw_pixel_data[i] > 0

\* C14: the built command is 'E', 'R', SH_PERIOD in four bytes with the most
\* significant first, ICG_PERIOD likewise, the mode byte 1, the integration count in
\* two bytes with the most significant first, and zeros up to PACKET_SIZE; reading
\* the header fields back gives the periods and the count that were encoded.
Thm_C14 ==
    pc = "done" =>
        /\ \A i \in PacketIndex : tx_buffer[i] \in 0 .. 255
        /\ tx_buffer[0] = 69 /\ tx_buffer[1] = 82
        /\ <<BigEndian16(tx_buffer[2], tx_buffer[3]),
              BigEndian16(tx_buffer[4], tx_buffer[5])>> = SH_PERIOD
        /\ <<BigEndian16(tx_buffer[6], tx_buffer[7]),
              BigEndian16(tx_buffer[8], tx_buffer[9])>> = ICG_PERIOD
        /\ tx_buffer[10] = 1
        /\ BigEndian16(tx_buffer[11], tx_buffer[12]) = NUM_INTEGRATIONS
        /\ \A i \in PacketIndex : i >= 13 => tx_buffer[i] = 0

\* The command built for SH_PERIOD = 0x01020304 and an ICG_PERIOD above 2^31.
Wit_C14 ==
    /\ pc = "done"
    /\ ev = <<"build">>
    /\ SH_PERIOD = <<258, 772>>
    /\ ICG_PERIOD = <<32768, 352>>
    /\ <<tx_buffer[2], tx_buffer[3], tx_buffer[4], tx_buffer[5]>> = <<1, 2, 3, 4>>
    /\ <<tx_buffer[6], tx_buffer[7], tx_buffer[8], tx_buffer[9]>> = <<128, 0, 1, 96>>

\* C15: every decoded sample is ADC_MAX_VALUE minus the count whose low byte is the
\* pixel's first byte and whose high byte is its second, in the uint16_t arithmetic
\* of the sample; for a count up to ADC_MAX_VALUE that is the plain difference, so
\* the count 0 gives ADC_MAX_VALUE and the count ADC_MAX_VALUE gives 0.
Thm_C15 ==
    pc = "done" =>
        \A i \in Pixels :
            LET count == rx_buffer[2 * i] + 256 * rx_buffer[2 * i + 1]
            IN  /\ (raw_pixel_data[i] + count) % U16 = ADC_MAX_VALUE
                /\ raw_pixel_data[i] \in 0 .. (U16 - 1)
                /\ count <= ADC_MAX_VALUE => raw_pixel_data[i] = ADC_MAX_VALUE - count
                /\ count = 0 => raw_pixel_data[i] = ADC_MAX_VALUE
                /\ count = ADC_MAX_VALUE => raw_pixel_data[i] = 0

\* A decoded frame with the count 0 in one pixel and the count ADC_MAX_VALUE, sent as
\* 0xFF then 0x0F, in another.
Wit_C15 ==
    /\ pc = "done"
    /\ ev = <<"decode">>
    /\ \E i \in Pixels :
          rx_buffer[2 * i] = 0 /\ rx_buffer[2 * i + 1] = 0 /\ raw_pixel_data[i] = ADC_MAX_VALUE
    /\ \E i \in Pixels :
          rx_buffer[2 * i] = 255 /\ rx_buffer[2 * i + 1] = 15 /\ raw_pixel_data[i] = 0

\* C16 as stated: every decoded sample is ADC_MAX_VALUE minus the 16-bit number
\* whose most significant byte is the first of the pixel's two bytes.
Cex_C16 ==
    pc = "done" =>
        \A i \in Pixels :
            raw_pixel_data[i] =
                (ADC_MAX_VALUE - BigEndian16(rx_buffer[2 * i], rx_buffer[2 * i + 1]) + U16) % U16

\* C16 as amended: the most significant byte is the second of the pixel's two bytes;
\* whenever the two bytes differ the sample is not the one the other byte order gives.
Thm_C16 ==
    pc = "done" =>
        \A i \in Pixels :
            /\ raw_pixel_data[i] =
                (ADC_MAX_VALUE - BigEndian16(rx_buffer[2 * i + 1], rx_buffer[2 * i]) + U16) % U16
            /\ rx_buffer[2 * i] # rx_buffer[2 * i + 1] =>
                raw_pixel_data[i] #
                    (ADC_MAX_VALUE - BigEndian16(rx_buffer[2 * i], rx_buffer[2 * i + 1]) + U16) % U16

\* A decoded pixel whose bytes are 0x00 then 0x01: the count is 256, not 1.
Wit_C16 ==
    /\ pc = "done"
    /\ ev = <<"decode">>
    /\ \E i \in Pixels :
          /\ rx_buffer[2 * i] = 0 /\ rx_buffer[2 * i + 1] = 1
          /\ raw_pixel_data[i] = ADC_MAX_VALUE - 256

\* C17: after any sequence of settings edits SH_PERIOD is at least 40 and ICG_PERIOD
\* at least 32000.
Thm_C17 ==
    /\ ~LessU32(SH_PERIOD, 40)
    /\ ~LessU32(ICG_PERIOD, 32000)

\* Both periods turned down to their lower limits.
Wit_C17 ==
    /\ currentState = STATE_SETTINGS_ACQ
    /\ SH_PERIOD = ToU32(40)
    /\ ICG_PERIOD = ToU32(32000)

\* C18: a decrement of the period being edited leaves max(minimum, value - step),
\* the minimum being 40 and the step 100 for SH_PERIOD, 32000 and 1000 for
\* ICG_PERIOD; the value never increases on a decrement.
Cex_C18 ==
    (currentState = STATE_SETTINGS_ACQ /\ pc = "ui" /\ settingsEditMode) =>
        LET h == handleSettingsAcqInput(Globals, -1, FALSE)
        IN  /\ settingsAcqSelection = 0 =>
                /\ h.SH_PERIOD = DecrementClamped(SH_PERIOD, 100, 40)
                /\ LessEqU32(h.SH_PERIOD, SH_PERIOD)
            /\ settingsAcqSelection = 1 =>
                /\ h.ICG_PERIOD = DecrementClamped(ICG_PERIOD, 1000, 32000)
                /\ LessEqU32(h.ICG_PERIOD, ICG_PERIOD)

\* C19 as stated: a settings edit that changes a period leaves tx_buffer equal to the
\* encoding of the new periods, and no step taken in a settings state leaves the
\* Idle states.
Cex_C19 ==
    [][/\ (SH_PERIOD' # SH_PERIOD \/ ICG_PERIOD' # ICG_PERIOD) =>
            tx_buffer' = CommandFrame(SH_PERIOD', ICG_PERIOD')
       /\ currentState \in SettingsStates => currentState' \in IdleStates
      ]_vars

\* C19 as amended: a settings edit changes a period and leaves tx_buffer as it was;
\* no step taken in a settings state writes tx_buffer, makes a bus exchange or leaves
\* the Idle states (nor would any input to the axis screen, tried whenever the
\* settings screen moves to the item that opens it); the command
\* is rebuilt from the current periods by the step that enters an acquisition
\* mode, and that is the command its kick-start sends.
Thm_C19 ==
    [][/\ (SH_PERIOD' # SH_PERIOD \/ ICG_PERIOD' # ICG_PERIOD) =>
            /\ currentState = STATE_SETTINGS_ACQ
            /\ tx_buffer' = tx_buffer
            /\ ev' = <<>>
       /\ currentState \in SettingsStates =>
            /\ currentState' \in IdleStates
            /\ tx_buffer' = tx_buffer
            /\ spi_mosi' = NoExchange
       /\ AxisItemSelected =>
            \A sel \in 0 .. SETTINGS_AXIS_MAX, edit \in BOOLEAN :
              \A g \in {OnAxisScreen(sel, edit)'} :
                \A rotation \in Rotations, click \in BOOLEAN :
                  \A h \in {handleSettingsAxisInput(g, rotation, click)} :
                    /\ h.currentState \in {STATE_SETTINGS_AXIS, STATE_SETTINGS}
                    /\ h.tx_buffer = tx_buffer'
                    /\ h.spi_mosi = NoExchange
       /\ (currentState \in IdleStates /\ currentState' \in AcquisitionStates) =>
            /\ tx_buffer' = CommandFrame(SH_PERIOD', ICG_PERIOD')
            /\ spi_mosi' = [op |-> "write", frame |-> tx_buffer']
      ]_vars

\* The acquisition settings screen after an edit: tx_buffer still holds the command
\* of the old periods.
Wit_C19 ==
    /\ currentState = STATE_SETTINGS_ACQ
    /\ SH_PERIOD # ToU32(SH_PERIOD_INIT)
    /\ tx_buffer = CommandFrame(ToU32(SH_PERIOD_INIT), ToU32(ICG_PERIOD_INIT))
    /\ tx_buffer # CommandFrame(SH_PERIOD, ICG_PERIOD)

\* C20: a period changes only in a step of the acquisition settings screen taken in
\* edit mode, and then it is the selected period alone; on that screen nothing
\* changes without a rotation, nor outside edit mode; the main menu, the other
\* settings screens (every input to the axis screen is tried whenever the settings
\* screen moves to the item that opens it) and the three acquisition modes leave
\* both periods unchanged.
Thm_C20 ==
    [][/\ (SH_PERIOD' # SH_PERIOD \/ ICG_PERIOD' # ICG_PERIOD) =>
            /\ pc = "ui"
            /\ currentState = STATE_SETTINGS_ACQ /\ currentState' = STATE_SETTINGS_ACQ
            /\ settingsEditMode
            /\ SH_PERIOD' # SH_PERIOD => (settingsAcqSelection = 0 /\ ICG_PERIOD' = ICG_PERIOD)
            /\ ICG_PERIOD' # ICG_PERIOD => (settingsAcqSelection = 1 /\ SH_PERIOD' = SH_PERIOD)
       /\ (currentState = STATE_SETTINGS_ACQ /\ pc = "ui") =>
            \A rotation \in Rotations, click \in BOOLEAN :
                LET h == handleSettingsAcqInput(Globals, rotation, click)
                IN  (rotation = 0 \/ ~settingsEditMode) =>
                        (h.SH_PERIOD = SH_PERIOD /\ h.ICG_PERIOD = ICG_PERIOD)
       /\ AxisItemSelected =>
            \A sel \in 0 .. SETTINGS_AXIS_MAX, edit \in BOOLEAN :
              \A g \in {OnAxisScreen(sel, edit)'} :
                \A rotation \in Rotations, click \in BOOLEAN :
                  \A h \in {handleSettingsAxisInput(g, rotation, click)} :
                    h.SH_PERIOD = SH_PERIOD' /\ h.ICG_PERIOD = ICG_PERIOD'
       /\ (currentState \in AcquisitionStates \/ currentState' \in AcquisitionStates) =>
            UNCHANGED <<SH_PERIOD, ICG_PERIOD>>
      ]_vars

\* ContinuousScan publishing with an edited ICG_PERIOD: the period has kept its
\* value since the mode was entered.
Wit_C20 ==
    /\ currentState = STATE_ACQUISITION_CONT
    /\ Called("draw")
    /\ ICG_PERIOD = AddU32(ToU32(ICG_PERIOD_INIT), 1000)
    /\ tx_buffer = CommandFrame(SH_PERIOD, ICG_PERIOD)

\* C21: ContinuousScan is left only from the top of an iteration and only for the
\* main menu; of the gestures the switch is handed, the click alone leaves the mode
\* (a rotation or a long press without it changes nothing); the iteration that
\* observes the click makes no bus exchange and leaves the receive buffer, the
\* spectra and a pending ready flag as they were; no exchange is made while the
\* menus are shown.
Thm_C21 ==
    [][/\ (currentState = STATE_ACQUISITION_CONT /\ currentState' # currentState) =>
            /\ pc = "ui" /\ pc' = "ui"
            /\ currentState' = STATE_MAIN_MENU
            /\ spi_mosi' = NoExchange
            /\ ev' = <<>>
            /\ UNCHANGED <<dataReady, nPulses, rx_buffer, raw_pixel_data, pixel_data>>
       /\ (currentState = STATE_ACQUISITION_CONT /\ pc = "ui") =>
            \A rotation \in Rotations, longPress \in BOOLEAN :
                /\ loopSwitch(Globals, rotation, FALSE, longPress) = Globals
                /\ LET h == loopSwitch(Globals, rotation, TRUE, FALSE)
                   IN  /\ h.currentState = STATE_MAIN_MENU
                       /\ h.spi_mosi = NoExchange
                       /\ h.rx_buffer = rx_buffer
       /\ currentState' \in IdleStates => spi_mosi' = NoExchange
      ]_vars

\* The main menu with the continuous graph wiped, results of ContinuousScan in the
\* buffers and ready events still pending.
Wit_C21 ==
    /\ currentState = STATE_MAIN_MENU
    /\ mainMenuSelection = 0
    /\ pc = "ui"
    /\ dataReady
    /\ nPulses = MaxPulses
    /\ rx_buffer = RxFrame(1)
    /\ ~darkSpectrumSaved
    /\ pixel_data = raw_pixel_data
    /\ nRequests = 0

\* C22: a step that starts in DarkCapture and changes the state goes to the main
\* menu from the top of an iteration; it changes the dark spectrum only if it made
\* the save, and then the dark spectrum is the raw spectrum and is marked saved;
\* whatever the gestures, a click, a rotation or a long press leaves DarkCapture
\* in the iteration that sees it, the first two without the long press leave the
\* dark spectrum alone, and no gesture leaves everything as it was.
Thm_C22 ==
    [][/\ (currentState = STATE_ACQUISITION_DARK /\ currentState' # currentState) =>
            /\ pc = "ui" /\ pc' = "ui"
            /\ currentState' = STATE_MAIN_MENU
            /\ IF Called("save")'
               THEN dark_spectrum_data' = raw_pixel_data /\ darkSpectrumSaved'
               ELSE UNCHANGED <<dark_spectrum_data, darkSpectrumSaved>>
       /\ (currentState = STATE_ACQUISITION_DARK /\ pc = "ui") =>
            \A rotation \in Rotations, click \in BOOLEAN, longPress \in BOOLEAN :
                Gesture(click, longPress) =>
                    LET h == loopSwitch(Globals, rotation, click, longPress)
                    IN  /\ (click \/ rotation # 0 \/ longPress) =>
                                h.currentState = STATE_MAIN_MENU
                        /\ ~longPress =>
                                /\ h.dark_spectrum_data = dark_spectrum_data
                                /\ h.darkSpectrumSaved = darkSpectrumSaved
                        /\ longPress =>
                                /\ h.dark_spectrum_data = raw_pixel_data
                                /\ h.darkSpectrumSaved
                        /\ (~click /\ rotation = 0 /\ ~longPress) => h = Globals
      ]_vars

\* The main menu right after a long press in DarkCapture stored a captured frame.
Wit_C22 ==
    /\ currentState = STATE_MAIN_MENU
    /\ ev = <<"save">>
    /\ darkSpectrumSaved
    /\ dark_spectrum_data = raw_pixel_data
    /\ dark_spectrum_data # ZeroSpectrum
    /\ tft_graph = NoGraph

\* C23: the dark spectrum and its saved mark change only in the step that makes
\* the save, taken from DarkCapture; that step sets the dark spectrum to the raw
\* spectrum and the mark to true whatever they were; once set the mark stays set.
Thm_C23 ==
    [][/\ (dark_spectrum_data' # dark_spectrum_data \/ darkSpectrumSaved' # darkSpectrumSaved) =>
            /\ currentState = STATE_ACQUISITION_DARK
            /\ pc = "ui"
            /\ Called("save")'
       /\ (pc = "ui" /\ currentState = STATE_ACQUISITION_DARK /\ Called("save")') =>
            /\ dark_spectrum_data' = raw_pixel_data
            /\ raw_pixel_data' = raw_pixel_data
            /\ darkSpectrumSaved'
       /\ darkSpectrumSaved => darkSpectrumSaved'
      ]_vars

\* A save over an earlier, different dark spectrum: the corrected spectrum still
\* shows the difference to the one that was replaced.
Wit_C23 ==
    /\ Called("save")
    /\ darkSpectrumSaved
    /\ dark_spectrum_data = raw_pixel_data
    /\ \E i \in Pixels : pixel_data[i] # 0 /\ pixel_data[i] # raw_pixel_data[i]

\* C24: whatever the ready line, the frames and the network do, loop() comes
\* back to its top again and again, and every acquisition state is followed by a
\* menu state.
Thm_C24 ==
    /\ []<>(pc = "ui")
    /\ (currentState \in AcquisitionStates) ~> (currentState \in IdleStates)

\* The main menu right after SingleScan was left with its one request unanswered:
\* the ready line never fired.
Wit_C24 ==
    /\ currentState = STATE_MAIN_MENU
    /\ waitingForSingleScan
    /\ nRequests = 1 /\ nResults = 0
    /\ ~dataReady
    /\ nPulses = 0
    /\ rx_buffer = ZeroPacket

\* C25: a step that consumes a ready event and whose exchange brought in nothing
\* but the idle level of the line (the controller did not answer) leaves the raw and
\* the corrected spectrum as they were and stays in its acquisition state.
Cex_C25 ==
    [][(ConsumeStep /\ rx_buffer' = ZeroPacket) =>
            /\ UNCHANGED <<raw_pixel_data, pixel_data>>
            /\ currentState' = currentState
      ]_vars

\* C26: a client that comes or goes changes nothing of the core, and at that
\* moment every gesture the switch may read (the long press is read in DarkCapture
\* only) ends in the same core with and without the client; a SingleScan request and, for every frame, the ready branch of every
\* acquisition state end in the same core with and without the client; without a
\* client nothing is written, with one ContinuousScan and SingleScan write the
\* marker AA BB CC DD and then the corrected spectrum; whatever a step wrote to the
\* client is that marker followed by the corrected spectrum it left.
Thm_C26 ==
    [][/\ clientConnected' # clientConnected =>
            /\ Core(Globals)' = Core(Globals)
            /\ UNCHANGED <<outs, dataReady, nPulses, pc, clicked>>
            /\ pc = "ui" =>
                \A with \in {WithClient(Globals, TRUE)}, without \in {WithClient(Globals, FALSE)} :
                  \A rotation \in Rotations, click \in BOOLEAN,
                     longPress \in IF currentState = STATE_ACQUISITION_DARK
                                   THEN BOOLEAN ELSE {FALSE} :
                    \A a \in {loopSwitch(with, rotation, click, longPress)},
                       b \in {loopSwitch(without, rotation, click, longPress)} :
                        Core(a) = Core(b)
       /\ (pc = "acq" /\ currentState = STATE_ACQUISITION_SINGLE) =>
            \A a \in {singleRequest(WithClient(Globals, TRUE))},
               b \in {singleRequest(WithClient(Globals, FALSE))} :
                Core(a) = Core(b)
       /\ pc = "consume" =>
            \A frame \in Frames :
                \A with \in {ReadyBranch(WithClient(Globals, TRUE), frame)},
                   without \in {ReadyBranch(WithClient(Globals, FALSE), frame)} :
                    /\ Core(with) = Core(without)
                    /\ without.wifi_sent = NoPacket
                    /\ currentState # STATE_ACQUISITION_DARK =>
                            with.wifi_sent = [marker |-> <<170, 187, 204, 221>>,
                                              data |-> without.pixel_data]
       /\ (ConsumeStep /\ ~clientConnected) => wifi_sent' = NoPacket
       /\ wifi_sent' # NoPacket =>
            /\ Called("send")'
            /\ wifi_sent'.marker = <<170, 187, 204, 221>>
            /\ wifi_sent'.data = pixel_data'
      ]_vars

\* SingleScan has published a spectrum to the display with nobody connected.
Wit_C26 ==
    /\ currentState = STATE_ACQUISITION_SINGLE
    /\ ev = ReadySequence
    /\ ~clientConnected
    /\ wifi_sent = NoPacket
    /\ pixel_data # ZeroSpectrum
    /\ tft_graph = [mode |-> STATE_ACQUISITION_SINGLE, data |-> pixel_data]
    /\ spi_mosi # NoExchange

\* C27: whatever a step put on the bus, as a kick-start or as a combined
\* exchange, is the command frame that encodes the periods as they are.
Thm_C27 ==
    spi_mosi # NoExchange =>
        /\ spi_mosi.op \in {"write", "transfer"}
        /\ spi_mosi.frame = CommandFrame(SH_PERIOD, ICG_PERIOD)

\* The second request of a SingleScan session, made by a click, with an edited
\* period in the frame.
Wit_C27 ==
    /\ currentState = STATE_ACQUISITION_SINGLE
    /\ ev = <<"kick">>
    /\ nRequests = 2
    /\ SH_PERIOD # ToU32(SH_PERIOD_INIT)
    /\ spi_mosi.frame = CommandFrame(SH_PERIOD, ICG_PERIOD)

\* C28: a step that consumes a ready event never takes a flag that was already
\* set when the command of the request it answers was sent.
Cex_C28 ==
    [][ConsumeStep => ~staleReady]_vars

\* C29: in SingleScan the requests of the session outnumber its results by one
\* while the latch is armed and by none while it is clear; a step of the
\* acquisition section taken with the latch armed makes no call and changes no
\* global, click or not; a step taken in SingleScan that sends a kick-start starts
\* from a clear latch and a click and arms the latch; the step that consumes a
\* result sends no kick-start and leaves the latch clear, and the rest of that
\* iteration sends none either and forgets the click.
Thm_C29 ==
    [][/\ currentState' = STATE_ACQUISITION_SINGLE =>
            nRequests' - nResults' = IF waitingForSingleScan' THEN 1 ELSE 0
       /\ (currentState = STATE_ACQUISITION_SINGLE /\ pc = "acq" /\ pc' # pc
                /\ waitingForSingleScan) =>
            /\ ev' = <<>>
            /\ spi_mosi' = NoExchange
            /\ UNCHANGED <<gvars, dataReady, nRequests, nResults>>
       /\ (currentState = STATE_ACQUISITION_SINGLE /\ pc' # pc /\ Called("kick")') =>
            /\ pc = "acq"
            /\ clicked
            /\ ~waitingForSingleScan
            /\ waitingForSingleScan'
            /\ nRequests' = nRequests + 1
       /\ (currentState = STATE_ACQUISITION_SINGLE /\ ConsumeStep) =>
            /\ ~Called("kick")'
            /\ ~waitingForSingleScan'
            /\ pc' = "tail"
            /\ clicked' = clicked
       /\ (currentState = STATE_ACQUISITION_SINGLE /\ pc \in {"tail", "tailclear"}
                /\ pc' # pc) =>
            /\ spi_mosi' = NoExchange
            /\ UNCHANGED <<waitingForSingleScan, nRequests>>
            /\ pc' = "ui" => ~clicked'
      ]_vars

\* SingleScan in the iteration that consumed a result while the button was
\* clicked: the latch is clear and no request is outstanding.
Wit_C29 ==
    /\ currentState = STATE_ACQUISITION_SINGLE
    /\ pc = "tail"
    /\ clicked
    /\ ev = ReadySequence
    /\ ~waitingForSingleScan
    /\ nRequests = nResults

\* C30: every sample processData_Raw has decoded lies in 0 .. ADC_MAX_VALUE,
\* whatever the two bytes of its pixel were.
Cex_C30 ==
    pc = "done" => \A i \in Pixels : raw_pixel_data[i] \in 0 .. ADC_MAX_VALUE

\* C31: a step that starts and ends in a menu state makes no bus exchange and
\* leaves the receive buffer, the raw and the corrected spectrum as they were, and a
\* ready flag that is set stays set; a step that leaves the menus starts in the main
\* menu, and its one exchange is the kick-start with the command of the current
\* periods, the buffers and spectra untouched; every input to the axis screen (tried
\* whenever the settings screen moves to the item that opens it) ends in a menu
\* state without an exchange and with the same buffers and spectra, redraw included.
Thm_C31 ==
    [][/\ (currentState \in IdleStates /\ currentState' \in IdleStates) =>
            /\ spi_mosi' = NoExchange
            /\ UNCHANGED <<rx_buffer, raw_pixel_data, pixel_data>>
            /\ dataReady => dataReady'
            /\ ~Called("transfer")' /\ ~Called("kick")' /\ ~Called("decode")'
       /\ (currentState \in IdleStates /\ currentState' \notin IdleStates) =>
            /\ currentState = STATE_MAIN_MENU
            /\ pc = "ui"
            /\ ev' = <<"build", "kick">>
            /\ spi_mosi' = [op |-> "write", frame |-> CommandFrame(SH_PERIOD, ICG_PERIOD)]
            /\ UNCHANGED <<rx_buffer, raw_pixel_data, pixel_data, dataReady>>
       /\ AxisItemSelected =>
            \A sel \in 0 .. SETTINGS_AXIS_MAX, edit \in BOOLEAN :
              \A g \in {OnAxisScreen(sel, edit)'} :
                \A rotation \in Rotations, click \in BOOLEAN :
                  \A h \in {loopRedraw(loopSwitch(g, rotation, click, FALSE))} :
                    /\ h.currentState \in IdleStates
                    /\ h.spi_mosi = NoExchange
                    /\ h.ev = <<>>
                    /\ h.rx_buffer = rx_buffer'
                    /\ h.raw_pixel_data = raw_pixel_data'
                    /\ h.pixel_data = pixel_data'
      ]_vars

\* The acquisition settings screen after an acquisition, with ready events pending
\* that nobody reads.
Wit_C31 ==
    /\ currentState = STATE_SETTINGS_ACQ
    /\ dataReady
    /\ nPulses = MaxPulses
    /\ rx_buffer # ZeroPacket
    /\ raw_pixel_data # ZeroSpectrum
    /\ spi_mosi = NoExchange

\* C32: on the axis screen and back on the settings screen the plot limits keep
\* 0 <= plot_pixel_min <= plot_pixel_max - 10, plot_pixel_max <= PIXEL_COUNT - 1,
\* 0 <= plot_adc_min <= plot_adc_max - 100 and plot_adc_max <= ADC_MAX_VALUE, and
\* every index at which the graph would read the spectrum is one of its pixels.
Thm_C32 ==
    /\ 0 <= plot_pixel_min
    /\ plot_pixel_min <= plot_pixel_max - 10
    /\ plot_pixel_max <= PIXEL_COUNT - 1
    /\ 0 <= plot_adc_min
    /\ plot_adc_min <= plot_adc_max - 100
    /\ plot_adc_max <= 4095
    /\ drawGraph_GFX_indices(Globals) \subseteq 0 .. (PIXEL_COUNT - 1)

\* Both pixel limits have been edited and X Max has been stopped by X Min + 10, and
\* Y Max sits on its lower stop above an edited Y Min.
Wit_C32 ==
    /\ plot_pixel_min > 0
    /\ plot_pixel_max < PIXEL_COUNT - 1
    /\ plot_pixel_max = plot_pixel_min + 10
    /\ plot_adc_min > 0
    /\ plot_adc_max = plot_adc_min + 100

====
